---- MODULE Spec2Model ----
(***************************************************************************)
(* sol-shield: the pipeline from a parsed Solidity contract definition to  *)
(* a contract model (parser.js), to invariants, vulnerability findings and *)
(* a security score (analyzer.js), to the written artifacts (cli, report). *)
(*                                                                         *)
(* Strings the code only compares as a whole (node types, operators,       *)
(* severities, visibilities) are TLA+ strings.  Strings the code searches, *)
(* lower-cases or concatenates (names, rendered arguments, ids) are        *)
(* sequences of one-character strings, so that includes(), toLowerCase()   *)
(* and template concatenation are computed and not assumed.                *)
(***************************************************************************)
EXTENDS Integers, Sequences, FiniteSets, TLC

VARIABLES
    done,        \* which results of the pipeline exist: subset of Stages
    ast,         \* the ContractDefinition node handed over by the grammar parser
    contract,    \* the ContractModel built by extractContract
    invariants,  \* the list returned by discoverInvariants
    vulns,       \* the list returned by detectVulnerabilities
    scoreData,   \* the record returned by calculateSecurityScore
    gasIssues,   \* the list returned by detectGasIssues
    now,         \* the system clock, in half days
    runAt,       \* the clock reading when the latest run wrote its report
    written,     \* the files the latest run wrote: path and lines, in write order
    previous,    \* what the run before the latest one produced, if there was one
    source,      \* the file named on the command line: whether it exists, whether
                 \* the grammar parser accepts it, and the children of its syntax tree
    mode,        \* the command: "analyze", "generate" or "full"
    format,      \* the --format option: "terminal" or "md"
    outcome,     \* how the command ended: "pending", "exit(1)", "exit(0)" or "returned"
    analyzed,    \* the names of the contracts the command's loop processed, in order
    generatedFiles,  \* the paths the command collected from generateFoundryTests
    attackCount, \* the attacker contract written by the latest run, deployed: its
                 \* storage variable attackCount
    hooks,       \* the executions of the attacker's receive hook in progress, the
                 \* innermost last: attackCount when the hook was entered and when
                 \* the call it is waiting for was made, and which call that is
    reinvoked    \* how often the hook has called each function of the target so far

vars == <<done, ast, contract, invariants, vulns, scoreData, gasIssues, now, runAt, written,
          previous, source, mode, format, outcome, analyzed, generatedFiles, attackCount, hooks,
          reinvoked>>

(***************************************************************************)
(* Bounds of the model.                                                    *)
(***************************************************************************)
\* longest vulnerability list handed to calculateSecurityScore
MaxVulns == 6
\* most statements in a function body
MaxStmts == 2
MaxFns == 3
\* the last reading of the clock
MaxClock == 3
\* the count of calls of one function by the attacker's hook stops here
MaxReinvoked == 4

(***************************************************************************)
(* Severity levels.                                                        *)
(***************************************************************************)
CRITICAL == "CRITICAL"
HIGH == "HIGH"
MEDIUM == "MEDIUM"
LOW == "LOW"

(***************************************************************************)
(* Generic helpers.                                                        *)
(***************************************************************************)
Max(a, b) == IF a >= b THEN a ELSE b
Min(a, b) == IF a <= b THEN a ELSE b

\* all sequences over S of length 0..n
RECURSIVE SeqsUpTo(_, _)
SeqsUpTo(S, n) ==
    IF n = 0 THEN {<<>>}
    ELSE LET shorter == SeqsUpTo(S, n - 1)
         IN  shorter \cup {Append(s, x) : s \in {t \in shorter : Len(t) = n - 1}, x \in S}

(***************************************************************************)
(* Security score (analyzer.js calculateSecurityScore).                    *)
(***************************************************************************)
\* pts of one vulnerability: the if / else-if chain; any other severity keeps 0
SeverityPoints(severity) ==
    IF severity = CRITICAL THEN 25
    ELSE IF severity = HIGH THEN 15
    ELSE IF severity = MEDIUM THEN 8
    ELSE IF severity = LOW THEN 3
    ELSE 0

\* deductions.unshift(...): the breakdown in reverse order
UnshiftDeduction(deductions, d) == <<d>> \o deductions

\* deductions.push({ pts, title, severity })
PushDeduction(deductions, d) == Append(deductions, d)

\* the for loop over vulns: score -= pts, one deduction per vulnerability
RECURSIVE ScoreLoop(_, _, _, _)
ScoreLoop(vs, i, score, deductions) ==
    IF i > Len(vs) THEN [score |-> score, deductions |-> deductions]
    ELSE LET pts == SeverityPoints(vs[i].severity)
         IN  ScoreLoop(vs, i + 1, score - pts,
                       PushDeduction(deductions,
                           [pts |-> pts, title |-> vs[i].title, severity |-> vs[i].severity]))

\* Math.min(100, score) alone: no floor at 0
ClampNoFloor(score) == Min(100, score)

\* Math.max(0, Math.min(100, score))
Clamp(score) == Max(0, Min(100, score))

\* grade chain with the C threshold written score > 70
GradeOfStrict70(score) ==
    IF score >= 95 THEN "A+"
    ELSE IF score >= 90 THEN "A"
    ELSE IF score >= 80 THEN "B"
    ELSE IF score > 70 THEN "C"
    ELSE IF score >= 60 THEN "D"
    ELSE "F"

\* the grade if / else-if chain
GradeOf(score) ==
    IF score >= 95 THEN "A+"
    ELSE IF score >= 90 THEN "A"
    ELSE IF score >= 80 THEN "B"
    ELSE IF score >= 70 THEN "C"
    ELSE IF score >= 60 THEN "D"
    ELSE "F"

calculateSecurityScore(vs) ==
    LET loop == ScoreLoop(vs, 1, 100, <<>>)
        score == Clamp(loop.score)
    IN  [score |-> score, grade |-> GradeOf(score), deductions |-> loop.deductions]

(***************************************************************************)
(* JavaScript string and array operations on character sequences.          *)
(***************************************************************************)
UpperChars ==
    <<"A", "B", "C", "D", "E", "F", "G", "H", "I", "J", "K", "L", "M",
      "N", "O", "P", "Q", "R", "S", "T", "U", "V", "W", "X", "Y", "Z">>
LowerChars ==
    <<"a", "b", "c", "d", "e", "f", "g", "h", "i", "j", "k", "l", "m",
      "n", "o", "p", "q", "r", "s", "t", "u", "v", "w", "x", "y", "z">>

\* String.prototype.toLowerCase
toLowerCase(s) ==
    [i \in 1..Len(s) |->
        IF \E k \in 1..Len(UpperChars) : UpperChars[k] = s[i]
        THEN LowerChars[CHOOSE k \in 1..Len(UpperChars) : UpperChars[k] = s[i]]
        ELSE s[i]]

\* String.prototype.includes
includes(s, sub) ==
    \E i \in 0..(Len(s) - Len(sub)) : SubSeq(s, i + 1, i + Len(sub)) = sub

\* the concatenation of a sequence of sequences, in order
RECURSIVE Flatten(_)
Flatten(ss) == IF ss = <<>> THEN <<>> ELSE Head(ss) \o Flatten(Tail(ss))

\* Array.prototype.join
RECURSIVE join(_, _)
join(strs, sep) ==
    IF strs = <<>> THEN <<>>
    ELSE IF Len(strs) = 1 THEN strs[1]
    ELSE strs[1] \o sep \o join(Tail(strs), sep)

\* a field a node does not carry reads as undefined
Has(node, field) == field \in DOMAIN node

startsWith(s, prefix) ==
    Len(prefix) <= Len(s) /\ SubSeq(s, 1, Len(prefix)) = prefix

endsWith(s, suffix) ==
    Len(suffix) <= Len(s) /\ SubSeq(s, Len(s) - Len(suffix) + 1, Len(s)) = suffix

(***************************************************************************)
(* Contract model builder (parser.js).  A syntax-tree node is a record     *)
(* with a type tag and the fields the grammar parser gives that node; loc  *)
(* is [start |-> [line |-> n]].                                            *)
(***************************************************************************)
RECURSIVE typeToString(_)
typeToString(typeName) ==
    IF typeName.type = "ElementaryTypeName" THEN typeName.name
    ELSE IF typeName.type = "UserDefinedTypeName" THEN typeName.namePath
    ELSE IF typeName.type = "Mapping"
    THEN <<"m", "a", "p", "p", "i", "n", "g", "(">> \o typeToString(typeName.keyType) \o <<" ", "=", ">", " ">>
             \o typeToString(typeName.valueType) \o <<")">>
    ELSE IF typeName.type = "ArrayTypeName"
    THEN typeToString(typeName.baseTypeName) \o <<"[", "]">>
    ELSE <<"u", "n", "k", "n", "o", "w", "n">>

RECURSIVE argToString(_)
argToString(arg) ==
    IF arg.type = "Identifier" THEN arg.name
    ELSE IF arg.type = "StringLiteral" THEN <<"\"">> \o arg.value \o <<"\"">>
    ELSE IF arg.type = "NumberLiteral" THEN arg.number
    ELSE IF arg.type = "BooleanLiteral" THEN (IF arg.value THEN <<"t", "r", "u", "e">> ELSE <<"f", "a", "l", "s", "e">>)
    ELSE IF arg.type = "MemberAccess"
    THEN argToString(arg.expression) \o <<".">> \o arg.memberName
    ELSE IF arg.type = "IndexAccess"
    THEN argToString(arg.base) \o <<"[">> \o argToString(arg.index) \o <<"]">>
    ELSE IF arg.type = "BinaryOperation"
    THEN argToString(arg.left) \o <<" ">> \o arg.operator \o <<" ">> \o argToString(arg.right)
    ELSE IF arg.type = "FunctionCall"
    THEN argToString(arg.expression) \o <<"(">>
             \o join([i \in 1..Len(arg.arguments) |-> argToString(arg.arguments[i])], <<",", " ">>)
             \o <<")">>
    ELSE <<>>

\* the member names that make a call an external call
externalCallSelectors ==
    {<<"c", "a", "l", "l">>, <<"t", "r", "a", "n", "s", "f", "e", "r">>, <<"s", "e", "n", "d">>, <<"d", "e", "l", "e", "g", "a", "t", "e", "c", "a", "l", "l">>, <<"s", "t", "a", "t", "i", "c", "c", "a", "l", "l">>}

\* the operators that make an expression statement a state change
stateChangeOperators == {<<"=">>, <<"+", "=">>, <<"-", "=">>, <<"*", "=">>, <<"/", "=">>}

\* the callee of a call taken as written, a value attachment not looked through
calleeAsWritten(callee) == callee

\* the callee of a call, looking through addr.call{value: x}
unwrapNameValue(callee) ==
    IF callee.type = "NameValueExpression" /\ Has(callee, "expression")
    THEN callee.expression
    ELSE callee

\* fn.externalCalls.push({ type: member, loc: stmt.loc }) when expr is a
\* call of a selector member
pushExternalCall(expr, stmt, fn) ==
    LET memberExpr == unwrapNameValue(expr.expression)
    IN  IF memberExpr.type = "MemberAccess"
           /\ memberExpr.memberName \in externalCallSelectors
        THEN [fn EXCEPT !.externalCalls =
                 Append(@, [type |-> memberExpr.memberName, loc |-> stmt.loc])]
        ELSE fn

walkExprForExternalCalls(expr, stmt, fn) ==
    IF expr.type = "FunctionCall" /\ Has(expr, "expression")
    THEN pushExternalCall(expr, stmt, fn)
    ELSE fn

\* the ExpressionStatement arm of walkStatement
walkExpressionStatement(stmt, fn) ==
    LET expr == stmt.expression
        callee == expr.expression
        callName ==
            IF Has(callee, "name") THEN callee.name
            ELSE IF Has(callee, "memberName") THEN callee.memberName
            ELSE <<>>
        withRequire ==
            IF expr.type = "FunctionCall" /\ Has(expr, "expression")
               /\ callName \in {<<"r", "e", "q", "u", "i", "r", "e">>, <<"r", "e", "v", "e", "r", "t">>}
            THEN [fn EXCEPT !.requires =
                     Append(@, [type |-> callName,
                                args |-> [i \in 1..Len(expr.arguments) |->
                                             argToString(expr.arguments[i])]])]
            ELSE fn
        withCall ==
            IF expr.type = "FunctionCall" /\ Has(expr, "expression")
            THEN pushExternalCall(expr, stmt, withRequire)
            ELSE withRequire
    IN  IF expr.type = "BinaryOperation" /\ expr.operator \in stateChangeOperators
        THEN [withCall EXCEPT !.stateChanges =
                 Append(@, [target |-> argToString(expr.left),
                            operator |-> expr.operator, loc |-> stmt.loc])]
        ELSE withCall

RECURSIVE walkStatement(_, _)
RECURSIVE walkStatements(_, _)
walkStatements(stmts, fn) ==
    IF stmts = <<>> THEN fn
    ELSE walkStatements(Tail(stmts), walkStatement(Head(stmts), fn))

walkStatement(stmt, fn) ==
    LET f1 == IF stmt.type = "ExpressionStatement" /\ Has(stmt, "expression")
              THEN walkExpressionStatement(stmt, fn) ELSE fn
        f2 == IF stmt.type = "VariableDeclarationStatement" /\ Has(stmt, "initialValue")
              THEN walkExprForExternalCalls(stmt.initialValue, stmt, f1) ELSE f1
        f3 == IF stmt.type = "Block" /\ Has(stmt, "statements")
              THEN walkStatements(stmt.statements, f2) ELSE f2
        f4 == IF stmt.type = "IfStatement"
              THEN LET t == walkStatement(stmt.trueBody, f3)
                   IN  IF Has(stmt, "falseBody") THEN walkStatement(stmt.falseBody, t) ELSE t
              ELSE f3
    IN  IF stmt.type = "ForStatement" \/ stmt.type = "WhileStatement"
        THEN walkStatement(stmt.body, f4)
        ELSE f4

analyzeBody(body, fn) ==
    IF ~Has(body, "statements") THEN fn ELSE walkStatements(body.statements, fn)

extractFunction(node) ==
    LET fn == [name |-> IF Has(node, "name") /\ node.name # <<>> THEN node.name
                        ELSE IF node.isConstructor THEN <<"c", "o", "n", "s", "t", "r", "u", "c", "t", "o", "r">>
                        ELSE IF node.isFallback THEN <<"f", "a", "l", "l", "b", "a", "c", "k">>
                        ELSE <<"r", "e", "c", "e", "i", "v", "e">>,
               visibility |-> IF Has(node, "visibility") THEN node.visibility ELSE "public",
               stateMutability |-> IF Has(node, "stateMutability")
                                   THEN node.stateMutability ELSE "null",
               isConstructor |-> node.isConstructor,
               isFallback |-> node.isFallback,
               isReceiveEther |-> node.isReceiveEther,
               params |-> [i \in 1..Len(node.parameters) |->
                              [name |-> node.parameters[i].name,
                               type |-> typeToString(node.parameters[i].typeName)]],
               returnParams |->
                   IF Has(node, "returnParameters")
                   THEN [i \in 1..Len(node.returnParameters) |->
                            [name |-> node.returnParameters[i].name,
                             type |-> typeToString(node.returnParameters[i].typeName)]]
                   ELSE <<>>,
               modifiers |-> [i \in 1..Len(node.modifiers) |-> node.modifiers[i].name],
               requires |-> <<>>,
               externalCalls |-> <<>>,
               stateChanges |-> <<>>,
               loc |-> node.loc]
    IN  IF Has(node, "body") THEN analyzeBody(node.body, fn) ELSE fn

extractStateVar(v) ==
    [name |-> v.name,
     typeName |-> typeToString(v.typeName),
     visibility |-> IF Has(v, "visibility") THEN v.visibility ELSE "internal",
     isDeclaredConst |-> v.isDeclaredConst,
     isImmutable |-> v.isImmutable,
     isMapping |-> v.typeName.type = "Mapping",
     mappingKeyType |-> IF v.typeName.type = "Mapping"
                        THEN typeToString(v.typeName.keyType) ELSE <<>>,
     mappingValueType |-> IF v.typeName.type = "Mapping"
                          THEN typeToString(v.typeName.valueType) ELSE <<>>]

extractEvent(node) ==
    [name |-> node.name,
     params |-> [i \in 1..Len(node.parameters) |->
                    [name |-> node.parameters[i].name,
                     type |-> typeToString(node.parameters[i].typeName),
                     isIndexed |-> IF Has(node.parameters[i], "isIndexed")
                                   THEN node.parameters[i].isIndexed ELSE FALSE]]]

\* the sub-nodes of one type, in declaration order
subNodesOfType(node, t) == SelectSeq(node.subNodes, LAMBDA sub : sub.type = t)

extractContract(node) ==
    LET stateVars ==
            Flatten([i \in 1..Len(subNodesOfType(node, "StateVariableDeclaration")) |->
                LET decl == subNodesOfType(node, "StateVariableDeclaration")[i]
                IN  [j \in 1..Len(decl.variables) |-> extractStateVar(decl.variables[j])]])
        fnNodes == subNodesOfType(node, "FunctionDefinition")
        eventNodes == subNodesOfType(node, "EventDefinition")
        modifierNodes == subNodesOfType(node, "ModifierDefinition")
    IN  [name |-> node.name,
         kind |-> node.kind,
         baseContracts |->
             IF Has(node, "baseContracts")
             THEN [i \in 1..Len(node.baseContracts) |-> node.baseContracts[i].baseName.namePath]
             ELSE <<>>,
         stateVars |-> stateVars,
         functions |-> [i \in 1..Len(fnNodes) |-> extractFunction(fnNodes[i])],
         events |-> [i \in 1..Len(eventNodes) |-> extractEvent(eventNodes[i])],
         modifiers |-> [i \in 1..Len(modifierNodes) |-> [name |-> modifierNodes[i].name]],
         mappings |-> SelectSeq(stateVars, LAMBDA v : v.isMapping)]

(***************************************************************************)
(* Vulnerability detection (analyzer.js detectVulnerabilities).  A rule is *)
(* the list of findings it pushes, in push order.  A title or description  *)
(* built from a template literal is the template with the strings and the *)
(* numbers interpolated into it, in order.                                 *)
(***************************************************************************)
Msg(template, strs, nums) == [template |-> template, strs |-> strs, nums |-> nums]

lineOf(site) == site.loc.start.line

\* sc.loc.start.line >= callLine: a state change on the call's own line counts
isAfterOrSameLine(sc, callLine) == lineOf(sc) >= callLine

\* sc.loc && sc.loc.start.line > callLine
isAfter(sc, callLine) == lineOf(sc) > callLine

\* the findings of one function: one per external call followed by a state change
reentrancyOfFunction(fn) ==
    Flatten([i \in 1..Len(fn.externalCalls) |->
        LET call == fn.externalCalls[i]
            callLine == lineOf(call)
            stateChangesAfter == SelectSeq(fn.stateChanges, LAMBDA sc : isAfter(sc, callLine))
        IN  IF Len(stateChangesAfter) > 0
            THEN <<[id |-> <<"r", "e", "e", "n", "t", "r", "a", "n", "c", "y", "_">> \o fn.name,
                    severity |-> CRITICAL,
                    title |-> Msg("Reentrancy in ${fn.name}()", <<fn.name>>, <<>>),
                    description |->
                        Msg("External call (${call.type}) at line ${callLine} occurs BEFORE state updates at line(s) ${lines}. An attacker can re-enter this function before state is updated.",
                            <<call.type>>,
                            <<callLine>> \o [k \in 1..Len(stateChangesAfter) |->
                                                lineOf(stateChangesAfter[k])]),
                    pattern |-> "Reentrancy (SWC-107)",
                    function |-> fn.name,
                    line |-> callLine,
                    fix |-> Msg("Move state changes before the external call (Checks-Effects-Interactions pattern), or use a reentrancy guard",
                                <<>>, <<>>)]>>
            ELSE <<>>])

detectReentrancy(c) ==
    Flatten([i \in 1..Len(c.functions) |-> reentrancyOfFunction(c.functions[i])])

\* call.isReturnCaptured: a field no call site record carries reads as undefined
isReturnCaptured(call) ==
    IF Has(call, "isReturnCaptured") THEN call.isReturnCaptured ELSE FALSE

detectUncheckedReturn(c) ==
    Flatten([i \in 1..Len(c.functions) |->
        LET fn == c.functions[i]
        IN  Flatten([j \in 1..Len(fn.externalCalls) |->
                LET call == fn.externalCalls[j]
                IN  IF call.type = <<"s", "e", "n", "d">> /\ ~isReturnCaptured(call)
                    THEN <<[id |-> <<"u", "n", "c", "h", "e", "c", "k", "e", "d", "_", "s", "e", "n", "d", "_">> \o fn.name,
                            severity |-> HIGH,
                            title |-> Msg("Unchecked send() in ${fn.name}()", <<fn.name>>, <<>>),
                            description |-> Msg("send() returns bool but failure may not be handled. Use call() with return value check instead.",
                                    <<>>, <<>>),
                            pattern |-> "Unchecked Return (SWC-104)",
                            function |-> fn.name,
                            line |-> lineOf(call),
                            fix |-> Msg("Replace send() with call() and check the return value, or use transfer()",
                                        <<>>, <<>>)]>>
                    ELSE <<>>])])

\* whether some element of a sequence satisfies a test
some(seq, Test(_)) == \E i \in 1..Len(seq) : Test(seq[i])

accessControlModifiers ==
    {<<"o", "n", "l", "y", "O", "w", "n", "e", "r">>, <<"o", "n", "l", "y", "A", "d", "m", "i", "n">>, <<"o", "n", "l", "y", "R", "o", "l", "e">>, <<"a", "u", "t", "h">>, <<"a", "u", "t", "h", "o", "r", "i", "z", "e", "d">>}

sensitiveFnNames ==
    <<<<"m", "i", "n", "t">>, <<"b", "u", "r", "n">>, <<"p", "a", "u", "s", "e">>, <<"u", "n", "p", "a", "u", "s", "e">>, <<"w", "i", "t", "h", "d", "r", "a", "w">>, <<"s", "e", "t", "O", "w", "n", "e", "r">>,
      <<"t", "r", "a", "n", "s", "f", "e", "r", "O", "w", "n", "e", "r", "s", "h", "i", "p">>, <<"u", "p", "g", "r", "a", "d", "e">>, <<"s", "e", "l", "f", "d", "e", "s", "t", "r", "u", "c", "t">>, <<"d", "e", "s", "t", "r", "o", "y">>>>

\* sensitiveFnNames.some((s) => fn.name.toLowerCase().includes(s))
isSensitive(fn) ==
    some(sensitiveFnNames, LAMBDA s : includes(toLowerCase(fn.name), s))

hasAccessControl(fn) == some(fn.modifiers, LAMBDA m : m \in accessControlModifiers)

\* any require at all taken for an access check
hasAnyRequire(fn) == Len(fn.requires) > 0

hasRequireOwner(fn) ==
    some(fn.requires, LAMBDA r :
        some(r.args, LAMBDA a :
            includes(a, <<"o", "w", "n", "e", "r">>) \/ includes(a, <<"a", "d", "m", "i", "n">>) \/ includes(a, <<"m", "s", "g", ".", "s", "e", "n", "d", "e", "r">>)))

detectMissingAccessControl(c) ==
    Flatten([i \in 1..Len(c.functions) |->
        LET fn == c.functions[i]
        IN  IF fn.isConstructor
               \/ (fn.visibility # "public" /\ fn.visibility # "external")
            THEN <<>>
            ELSE IF isSensitive(fn) /\ ~hasAccessControl(fn) /\ ~hasRequireOwner(fn)
            THEN <<[id |-> <<"m", "i", "s", "s", "i", "n", "g", "_", "a", "c", "c", "e", "s", "s", "_">> \o fn.name,
                    severity |-> CRITICAL,
                    title |-> Msg("Missing Access Control on ${fn.name}()", <<fn.name>>, <<>>),
                    description |-> Msg("${fn.name}() is a sensitive function but has no access control modifier or require check",
                                       <<fn.name>>, <<>>),
                    pattern |-> "Missing Access Control (SWC-105)",
                    function |-> fn.name,
                    line |-> lineOf(fn),
                    fix |-> Msg("Add an access control modifier (e.g., onlyOwner) to ${fn.name}()",
                                <<fn.name>>, <<>>)]>>
            ELSE <<>>])

detectFrontRunning(c) ==
    Flatten([i \in 1..Len(c.functions) |->
        LET fn == c.functions[i]
        IN  IF fn.name = <<"a", "p", "p", "r", "o", "v", "e">> /\ Len(fn.params) >= 2
            THEN <<[id |-> <<"f", "r", "o", "n", "t", "r", "u", "n", "_", "a", "p", "p", "r", "o", "v", "e">>,
                    severity |-> MEDIUM,
                    title |-> Msg("Front-Running Risk on approve()", <<>>, <<>>),
                    description |-> Msg("approve() is vulnerable to front-running. Consider implementing increaseAllowance/decreaseAllowance pattern.",
                                       <<>>, <<>>),
                    pattern |-> "Front-Running (SWC-114)",
                    function |-> fn.name,
                    line |-> lineOf(fn),
                    fix |-> Msg("Add increaseAllowance() and decreaseAllowance() functions as safer alternatives",
                                <<>>, <<>>)]>>
            ELSE <<>>])

detectDenialOfService(c) ==
    Flatten([i \in 1..Len(c.functions) |->
        LET fn == c.functions[i]
        IN  IF Len(fn.externalCalls) > 0 /\ Len(fn.externalCalls) > 1
            THEN <<[id |-> <<"d", "o", "s", "_", "m", "u", "l", "t", "i", "p", "l", "e", "_", "c", "a", "l", "l", "s", "_">> \o fn.name,
                    severity |-> MEDIUM,
                    title |-> Msg("Multiple External Calls in ${fn.name}()", <<fn.name>>, <<>>),
                    description |-> Msg("${fn.name}() makes ${fn.externalCalls.length} external calls. If any fails, the entire transaction reverts.",
                                       <<fn.name>>,
                                       <<Len(fn.externalCalls)>>),
                    pattern |-> "DoS with Failed Call (SWC-113)",
                    function |-> fn.name,
                    line |-> lineOf(fn),
                    fix |-> Msg("Consider using a pull-over-push pattern or handling each call's failure independently",
                                <<>>, <<>>)]>>
            ELSE <<>>])

detectVulnerabilities(c) ==
    detectReentrancy(c) \o detectUncheckedReturn(c) \o detectMissingAccessControl(c)
        \o detectFrontRunning(c) \o detectDenialOfService(c)

(***************************************************************************)
(* Invariant discovery (analyzer.js discoverInvariants).  A rule is the    *)
(* list of invariants it pushes, in push order.  invariantCode: null is    *)
(* the empty string and a missing ghostVars the empty list: every reader   *)
(* only tests them for truthiness before use.                              *)
(***************************************************************************)
Invariant(id, severity, title, description, pattern, invariantCode, ghostVars) ==
    [id |-> id, severity |-> severity, title |-> title, description |-> description,
     pattern |-> pattern, invariantCode |-> invariantCode, ghostVars |-> ghostVars]

GhostVar(name, trackIn) == [name |-> name, type |-> <<"u", "i", "n", "t", "2", "5", "6">>, trackIn |-> trackIn]

\* Array.prototype.find on names: the first element whose name is in the set
findByName(seq, names) ==
    seq[CHOOSE i \in 1..Len(seq) :
            /\ seq[i].name \in names
            /\ \A j \in 1..(i - 1) : seq[j].name \notin names]

someNamed(seq, names) == \E i \in 1..Len(seq) : seq[i].name \in names

balanceVarNames == {<<"b", "a", "l", "a", "n", "c", "e", "O", "f">>, <<"b", "a", "l", "a", "n", "c", "e", "s">>, <<"_", "b", "a", "l", "a", "n", "c", "e", "s">>}
supplyVarNames == {<<"t", "o", "t", "a", "l", "S", "u", "p", "p", "l", "y">>, <<"_", "t", "o", "t", "a", "l", "S", "u", "p", "p", "l", "y">>}

isERC20Like(c) ==
    /\ someNamed(c.functions, {<<"t", "r", "a", "n", "s", "f", "e", "r">>})
    /\ someNamed(c.stateVars, balanceVarNames)
    /\ someNamed(c.stateVars, supplyVarNames)

detectERC20Invariants(c) ==
    IF ~isERC20Like(c) THEN <<>>
    ELSE
    LET balVar == findByName(c.stateVars, balanceVarNames)
        supplyVar == findByName(c.stateVars, supplyVarNames)
        lcName == toLowerCase(c.name)
        transferFn == findByName(c.functions, {<<"t", "r", "a", "n", "s", "f", "e", "r">>})
        hasZeroCheck ==
            some(transferFn.requires, LAMBDA r :
                some(r.args, LAMBDA a : includes(a, <<"a", "d", "d", "r", "e", "s", "s", "(", "0", ")">>) \/ includes(a, <<"z", "e", "r", "o">>)))
    IN  <<Invariant(<<"e", "r", "c", "2", "0", "_", "s", "u", "p", "p", "l", "y", "_", "c", "o", "n", "s", "e", "r", "v", "a", "t", "i", "o", "n">>, CRITICAL,
              Msg("Total Supply Conservation", <<>>, <<>>),
              Msg("${supplyVar.name} must always equal the sum of all ${balVar.name}",
                  <<supplyVar.name, balVar.name>>, <<>>),
              "ERC20 supply integrity",
              <<"a", "s", "s", "e", "r", "t", "E", "q", "(">> \o lcName \o <<".">> \o supplyVar.name
                  \o <<"(", ")", ",", " ", "h", "a", "n", "d", "l", "e", "r", ".", "g", "h", "o", "s", "t", "_", "b", "a", "l", "a", "n", "c", "e", "S", "u", "m", "(", ")", ")">>,
              <<GhostVar(<<"g", "h", "o", "s", "t", "_", "b", "a", "l", "a", "n", "c", "e", "S", "u", "m">>,
                    <<<<"t", "r", "a", "n", "s", "f", "e", "r">>, <<"t", "r", "a", "n", "s", "f", "e", "r", "F", "r", "o", "m">>, <<"m", "i", "n", "t">>, <<"_", "m", "i", "n", "t">>, <<"b", "u", "r", "n">>, <<"_", "b", "u", "r", "n">>>>)>>),
          Invariant(<<"e", "r", "c", "2", "0", "_", "n", "o", "_", "f", "r", "e", "e", "_", "t", "o", "k", "e", "n", "s">>, CRITICAL,
              Msg("No Token Creation From Thin Air", <<>>, <<>>),
              Msg("${supplyVar.name} can only increase through authorized mint functions",
                  <<supplyVar.name>>, <<>>),
              "ERC20 mint control",
              <<"a", "s", "s", "e", "r", "t", "L", "e", "(">> \o lcName \o <<".">> \o supplyVar.name
                  \o <<"(", ")", ",", " ", "h", "a", "n", "d", "l", "e", "r", ".", "g", "h", "o", "s", "t", "_", "t", "o", "t", "a", "l", "M", "i", "n", "t", "e", "d", "(", ")", ")">>,
              <<GhostVar(<<"g", "h", "o", "s", "t", "_", "t", "o", "t", "a", "l", "M", "i", "n", "t", "e", "d">>, <<<<"m", "i", "n", "t">>, <<"_", "m", "i", "n", "t">>>>)>>),
          Invariant(<<"e", "r", "c", "2", "0", "_", "t", "r", "a", "n", "s", "f", "e", "r", "_", "s", "y", "m", "m", "e", "t", "r", "y">>, HIGH,
              Msg("Transfer Symmetry", <<>>, <<>>),
              Msg("For every transfer, sender decrease must equal receiver increase",
                  <<>>, <<>>),
              "ERC20 transfer integrity",
              <<"a", "s", "s", "e", "r", "t", "E", "q", "(", "h", "a", "n", "d", "l", "e", "r", ".", "g", "h", "o", "s", "t", "_", "s", "e", "n", "d", "e", "r", "D", "e", "c", "r", "e", "a", "s", "e", "(", ")", ",", " ", "h", "a", "n", "d", "l", "e", "r", ".", "g", "h", "o", "s", "t", "_", "r", "e", "c", "e", "i", "v", "e", "r", "I", "n", "c", "r", "e", "a", "s", "e", "(", ")", ")">>,
              <<GhostVar(<<"g", "h", "o", "s", "t", "_", "s", "e", "n", "d", "e", "r", "D", "e", "c", "r", "e", "a", "s", "e">>, <<<<"t", "r", "a", "n", "s", "f", "e", "r">>, <<"t", "r", "a", "n", "s", "f", "e", "r", "F", "r", "o", "m">>>>),
                GhostVar(<<"g", "h", "o", "s", "t", "_", "r", "e", "c", "e", "i", "v", "e", "r", "I", "n", "c", "r", "e", "a", "s", "e">>, <<<<"t", "r", "a", "n", "s", "f", "e", "r">>, <<"t", "r", "a", "n", "s", "f", "e", "r", "F", "r", "o", "m">>>>)>>)>>
        \o (IF someNamed(c.functions, {<<"a", "p", "p", "r", "o", "v", "e">>})
               /\ someNamed(c.functions, {<<"t", "r", "a", "n", "s", "f", "e", "r", "F", "r", "o", "m">>})
            THEN <<Invariant(<<"e", "r", "c", "2", "0", "_", "a", "l", "l", "o", "w", "a", "n", "c", "e", "_", "d", "e", "c", "r", "e", "a", "s", "e">>, HIGH,
                       Msg("Allowance Decreases on TransferFrom", <<>>, <<>>),
                       Msg("transferFrom must decrease allowance by the transferred amount",
                           <<>>, <<>>),
                       "ERC20 allowance integrity", <<>>, <<>>)>>
            ELSE <<>>)
        \o <<Invariant(<<"e", "r", "c", "2", "0", "_", "z", "e", "r", "o", "_", "a", "d", "d", "r", "e", "s", "s">>, IF hasZeroCheck THEN LOW ELSE MEDIUM,
                 Msg("Zero Address Guard", <<>>, <<>>),
                 Msg("transfer/transferFrom to address(0) should revert", <<>>, <<>>),
                 "Input validation", <<>>, <<>>)>>

isERC721Like(c) ==
    \/ someNamed(c.functions, {<<"o", "w", "n", "e", "r", "O", "f">>})
    \/ /\ someNamed(c.functions, {<<"s", "a", "f", "e", "T", "r", "a", "n", "s", "f", "e", "r", "F", "r", "o", "m">>})
       /\ someNamed(c.stateVars, {<<"_", "o", "w", "n", "e", "r", "s">>, <<"o", "w", "n", "e", "r", "s">>})

detectERC721Invariants(c) ==
    IF ~isERC721Like(c) THEN <<>>
    ELSE <<Invariant(<<"e", "r", "c", "7", "2", "1", "_", "o", "w", "n", "e", "r", "_", "c", "o", "n", "s", "i", "s", "t", "e", "n", "c", "y">>, CRITICAL,
               Msg("NFT Ownership Consistency", <<>>, <<>>),
               Msg("Every token with an owner must be counted in that owner's balance",
                   <<>>, <<>>),
               "ERC721 ownership integrity", <<>>, <<>>),
           Invariant(<<"e", "r", "c", "7", "2", "1", "_", "n", "o", "_", "d", "u", "p", "l", "i", "c", "a", "t", "e", "_", "o", "w", "n", "e", "r">>, CRITICAL,
               Msg("No Duplicate Ownership", <<>>, <<>>),
               Msg("Each tokenId can only have one owner at a time", <<>>, <<>>),
               "ERC721 uniqueness", <<>>, <<>>)>>

totalVarNames == {<<"t", "o", "t", "a", "l", "D", "e", "p", "o", "s", "i", "t", "e", "d">>, <<"t", "o", "t", "a", "l", "A", "s", "s", "e", "t", "s">>, <<"t", "o", "t", "a", "l", "S", "t", "a", "k", "e", "d">>}
vaultBalanceVarNames == {<<"b", "a", "l", "a", "n", "c", "e", "s">>, <<"d", "e", "p", "o", "s", "i", "t", "s">>, <<"s", "t", "a", "k", "e", "s">>}

detectSupplyInvariants(c) ==
    IF ~(someNamed(c.stateVars, totalVarNames) /\ someNamed(c.stateVars, vaultBalanceVarNames))
    THEN <<>>
    ELSE
    LET totalVar == findByName(c.stateVars, totalVarNames)
        balVar == findByName(c.stateVars, vaultBalanceVarNames)
        lcName == toLowerCase(c.name)
        hasPayable == some(c.functions, LAMBDA f : f.stateMutability = "payable")
    IN  <<Invariant(<<"v", "a", "u", "l", "t", "_", "a", "c", "c", "o", "u", "n", "t", "i", "n", "g">>, CRITICAL,
              Msg("Vault Accounting Integrity", <<>>, <<>>),
              Msg("${totalVar.name} must equal sum of all ${balVar.name}",
                  <<totalVar.name, balVar.name>>, <<>>),
              "Vault accounting",
              <<"a", "s", "s", "e", "r", "t", "E", "q", "(">> \o lcName \o <<".">> \o totalVar.name
                  \o <<"(", ")", ",", " ", "h", "a", "n", "d", "l", "e", "r", ".", "g", "h", "o", "s", "t", "_", "b", "a", "l", "a", "n", "c", "e", "S", "u", "m", "(", ")", ")">>,
              <<GhostVar(<<"g", "h", "o", "s", "t", "_", "b", "a", "l", "a", "n", "c", "e", "S", "u", "m">>,
                    <<<<"d", "e", "p", "o", "s", "i", "t">>, <<"w", "i", "t", "h", "d", "r", "a", "w">>, <<"s", "t", "a", "k", "e">>, <<"u", "n", "s", "t", "a", "k", "e">>>>)>>)>>
        \o (IF hasPayable
            THEN <<Invariant(<<"v", "a", "u", "l", "t", "_", "s", "o", "l", "v", "e", "n", "c", "y">>, CRITICAL,
                       Msg("Contract Solvency", <<>>, <<>>),
                       Msg("Contract ETH balance must be >= totalDeposited (contract can always pay out)",
                           <<>>, <<>>),
                       "Vault solvency",
                       <<"a", "s", "s", "e", "r", "t", "G", "e", "(", "a", "d", "d", "r", "e", "s", "s", "(">> \o lcName \o <<")", ".", "b", "a", "l", "a", "n", "c", "e", ",", " ">> \o lcName \o <<".">>
                           \o totalVar.name \o <<"(", ")", ")">>,
                       <<>>)>>
            ELSE <<>>)

\* a function that changes a balance-like target and has no require or revert
ChangesBalanceUnchecked(fn) ==
    /\ \E k \in 1..Len(fn.stateChanges) :
          \/ includes(fn.stateChanges[k].target, <<"b", "a", "l", "a", "n", "c", "e">>)
          \/ includes(fn.stateChanges[k].target, <<"B", "a", "l", "a", "n", "c", "e">>)
          \/ includes(fn.stateChanges[k].target, <<"d", "e", "p", "o", "s", "i", "t">>)
    /\ Len(fn.requires) = 0

\* the balance rule applied to the functions of every visibility
detectBalanceInvariantsAnyVisibility(c) ==
    Flatten([i \in 1..Len(c.functions) |->
        LET fn == c.functions[i]
        IN  IF ChangesBalanceUnchecked(fn) /\ ~fn.isConstructor
            THEN <<Invariant(<<"u", "n", "c", "h", "e", "c", "k", "e", "d", "_", "b", "a", "l", "a", "n", "c", "e", "_", "m", "o", "d", "_">> \o fn.name, HIGH,
                       Msg("Unchecked Balance Modification in ${fn.name}()", <<fn.name>>, <<>>),
                       Msg("${fn.name}() modifies balance-related state without require checks",
                           <<fn.name>>, <<>>),
                       "Missing validation", <<>>, <<>>)>>
            ELSE <<>>])

detectBalanceInvariants(c) ==
    Flatten([i \in 1..Len(c.functions) |->
        LET fn == c.functions[i]
            modifiesBalance ==
                some(fn.stateChanges, LAMBDA sc :
                    \/ includes(sc.target, <<"b", "a", "l", "a", "n", "c", "e">>)
                    \/ includes(sc.target, <<"B", "a", "l", "a", "n", "c", "e">>)
                    \/ includes(sc.target, <<"d", "e", "p", "o", "s", "i", "t">>))
        IN  IF modifiesBalance /\ Len(fn.requires) = 0 /\ ~fn.isConstructor
               /\ fn.visibility # "internal" /\ fn.visibility # "private"
            THEN <<Invariant(<<"u", "n", "c", "h", "e", "c", "k", "e", "d", "_", "b", "a", "l", "a", "n", "c", "e", "_", "m", "o", "d", "_">> \o fn.name, HIGH,
                       Msg("Unchecked Balance Modification in ${fn.name}()", <<fn.name>>, <<>>),
                       Msg("${fn.name}() modifies balance-related state without require checks",
                           <<fn.name>>, <<>>),
                       "Missing validation", <<>>, <<>>)>>
            ELSE <<>>])

\* the names of the functions carrying one of the modifiers, in order
namesOfFunctionsWith(c, mods) ==
    LET picked == SelectSeq(c.functions, LAMBDA f : some(f.modifiers, LAMBDA m : m \in mods))
    IN  [i \in 1..Len(picked) |-> picked[i].name]

detectAccessControlInvariants(c) ==
    IF ~someNamed(c.stateVars, {<<"o", "w", "n", "e", "r">>, <<"_", "o", "w", "n", "e", "r">>, <<"a", "d", "m", "i", "n">>}) THEN <<>>
    ELSE
    LET ownerVar == findByName(c.stateVars, {<<"o", "w", "n", "e", "r">>, <<"_", "o", "w", "n", "e", "r">>, <<"a", "d", "m", "i", "n">>})
        protectedFns == namesOfFunctionsWith(c, {<<"o", "n", "l", "y", "O", "w", "n", "e", "r">>, <<"o", "n", "l", "y", "A", "d", "m", "i", "n">>, <<"o", "n", "l", "y", "R", "o", "l", "e">>})
    IN  <<Invariant(<<"o", "w", "n", "e", "r", "_", "i", "m", "m", "u", "t", "a", "b", "l", "e">>, HIGH,
              Msg("Owner Cannot Be Accidentally Changed", <<>>, <<>>),
              Msg("${ownerVar.name} should only change through authorized functions",
                  <<ownerVar.name>>, <<>>),
              "Access control", <<>>, <<>>)>>
        \o (IF Len(protectedFns) > 0
            THEN <<Invariant(<<"a", "c", "c", "e", "s", "s", "_", "c", "o", "n", "t", "r", "o", "l", "_", "e", "n", "f", "o", "r", "c", "e", "d">>, HIGH,
                       Msg("Access Control Enforcement", <<>>, <<>>),
                       Msg("Protected functions [${names}] must revert when called by non-owner",
                           <<join(protectedFns, <<",", " ">>)>>, <<>>),
                       "Access control", <<>>, <<>>)>>
            ELSE <<>>)

detectPausableInvariants(c) ==
    IF ~someNamed(c.stateVars, {<<"p", "a", "u", "s", "e", "d">>, <<"_", "p", "a", "u", "s", "e", "d">>}) THEN <<>>
    ELSE
    LET pausedFns == namesOfFunctionsWith(c, {<<"w", "h", "e", "n", "N", "o", "t", "P", "a", "u", "s", "e", "d">>, <<"w", "h", "e", "n", "P", "a", "u", "s", "e", "d">>})
    IN  IF Len(pausedFns) > 0
        THEN <<Invariant(<<"p", "a", "u", "s", "a", "b", "l", "e", "_", "e", "n", "f", "o", "r", "c", "e", "m", "e", "n", "t">>, HIGH,
                   Msg("Pause Mechanism Enforcement", <<>>, <<>>),
                   Msg("When paused, functions [${names}] must revert",
                       <<join(pausedFns, <<",", " ">>)>>, <<>>),
                   "Pausable", <<>>, <<>>)>>
        ELSE <<>>

\* the first function with a subtracting state change gets the one finding
detectArithmeticInvariants(c) ==
    LET subtracts(fn) ==
            /\ Len(fn.stateChanges) > 0
            /\ some(fn.stateChanges, LAMBDA sc : sc.operator = <<"-", "=">> \/ sc.operator = <<"-">>)
        hits == SelectSeq(c.functions, subtracts)
    IN  IF hits = <<>> THEN <<>>
        ELSE <<Invariant(<<"u", "n", "d", "e", "r", "f", "l", "o", "w", "_">> \o hits[1].name, MEDIUM,
                   Msg("Underflow Protection in ${fn.name}()", <<hits[1].name>>, <<>>),
                   Msg("${fn.name}() performs subtraction - verify no underflow is possible",
                       <<hits[1].name>>, <<>>),
                   "Arithmetic safety", <<>>, <<>>)>>

\* the for loop over contract.mappings: k is the next mapping, pushed what
\* this rule pushed so far, earlier what the rules before it pushed
RECURSIVE mappingConsistencyLoop(_, _, _, _)
mappingConsistencyLoop(c, k, earlier, pushed) ==
    IF k > Len(c.mappings) THEN pushed
    ELSE
    LET m == c.mappings[k]
        isTotal(v) ==
            /\ ~v.isMapping
            /\ \/ includes(toLowerCase(v.name), <<"t", "o", "t", "a", "l">>)
               \/ includes(toLowerCase(v.name), <<"c", "o", "u", "n", "t">>)
               \/ includes(toLowerCase(v.name), <<"s", "u", "p", "p", "l", "y">>)
        totals == SelectSeq(c.stateVars, isTotal)
        covered ==
            some(earlier \o pushed, LAMBDA i :
                includes(i.id, <<"s", "u", "p", "p", "l", "y", "_", "c", "o", "n", "s", "e", "r", "v", "a", "t", "i", "o", "n">>) \/ includes(i.id, <<"a", "c", "c", "o", "u", "n", "t", "i", "n", "g">>))
    IN  IF totals # <<>> /\ ~covered
        THEN mappingConsistencyLoop(c, k + 1, earlier,
                 Append(pushed,
                     Invariant(<<"m", "a", "p", "p", "i", "n", "g", "_", "t", "o", "t", "a", "l", "_", "c", "o", "n", "s", "i", "s", "t", "e", "n", "c", "y", "_">> \o m.name \o <<"_">> \o totals[1].name,
                         MEDIUM,
                         Msg("Mapping-Total Consistency: ${m.name} vs ${relatedTotal.name}",
                             <<m.name, totals[1].name>>, <<>>),
                         Msg("Sum of all values in ${m.name} should be consistent with ${relatedTotal.name}",
                             <<m.name, totals[1].name>>, <<>>),
                         "Data consistency", <<>>, <<>>)))
        ELSE mappingConsistencyLoop(c, k + 1, earlier, pushed)

detectMappingConsistency(c, earlier) == mappingConsistencyLoop(c, 1, earlier, <<>>)

\* invariants.filter with no seen set: every entry is kept
keepAll(invs) == invs

\* the filter over a seen set: the first entry of every id is kept
RECURSIVE dedupeLoop(_, _, _, _)
dedupeLoop(invs, i, seen, kept) ==
    IF i > Len(invs) THEN kept
    ELSE IF invs[i].id \in seen THEN dedupeLoop(invs, i + 1, seen, kept)
    ELSE dedupeLoop(invs, i + 1, seen \cup {invs[i].id}, Append(kept, invs[i]))

deduplicateById(invs) == dedupeLoop(invs, 1, {}, <<>>)

discoverInvariants(c) ==
    LET beforeMappings ==
            detectERC20Invariants(c) \o detectERC721Invariants(c)
                \o detectSupplyInvariants(c) \o detectBalanceInvariants(c)
                \o detectAccessControlInvariants(c) \o detectPausableInvariants(c)
                \o detectArithmeticInvariants(c)
    IN  deduplicateById(beforeMappings \o detectMappingConsistency(c, beforeMappings))

(***************************************************************************)
(* Gas findings (analyzer.js detectGasIssues).                             *)
(***************************************************************************)
GasIssue(id, title, description, savings, fix) ==
    [id |-> id, title |-> title, description |-> description, savings |-> savings, fix |-> fix]

indexableTypes ==
    {<<"a", "d", "d", "r", "e", "s", "s">>, <<"u", "i", "n", "t", "2", "5", "6">>, <<"u", "i", "n", "t", "1", "2", "8">>, <<"u", "i", "n", "t", "6", "4">>, <<"u", "i", "n", "t", "3", "2">>, <<"u", "i", "n", "t", "1", "6">>, <<"u", "i", "n", "t", "8">>,
     <<"i", "n", "t", "2", "5", "6">>, <<"i", "n", "t", "1", "2", "8">>, <<"b", "y", "t", "e", "s", "3", "2">>, <<"b", "o", "o", "l">>}

detectNonIndexedEvents(c) ==
    Flatten([e \in 1..Len(c.events) |->
        LET event == c.events[e]
            indexedCount == Len(SelectSeq(event.params, LAMBDA p : p.isIndexed))
            indexable == SelectSeq(event.params,
                             LAMBDA p : ~p.isIndexed /\ p.type \in indexableTypes)
            canIndex == Min(Len(indexable), 3 - indexedCount)
        IN  IF Len(indexable) > 0 /\ indexedCount < 3
            THEN <<GasIssue(<<"g", "a", "s", "_", "e", "v", "e", "n", "t", "_", "i", "n", "d", "e", "x", "_">> \o event.name,
                       Msg("Add indexed to ${event.name} event parameters", <<event.name>>, <<>>),
                       Msg("${event.name} has ${indexable.length} param(s) that could be indexed for cheaper log filtering",
                           <<event.name>>, <<Len(indexable)>>),
                       "~375 gas saved per indexed param when filtering logs",
                       Msg("Add indexed keyword to: ${names}",
                           <<join([k \in 1..canIndex |-> indexable[k].name], <<",", " ">>)>>, <<>>))>>
            ELSE <<>>])

detectImmutableCandidates(c) ==
    IF ~some(c.functions, LAMBDA f : f.isConstructor) THEN <<>>
    ELSE
    LET ctorFn == SelectSeq(c.functions, LAMBDA f : f.isConstructor)[1]
        otherFns == SelectSeq(c.functions, LAMBDA f : ~f.isConstructor)
    IN  Flatten([v \in 1..Len(c.stateVars) |->
            LET sv == c.stateVars[v]
                setInCtor == some(ctorFn.stateChanges, LAMBDA sc : sc.target = sv.name)
                modifiedElsewhere ==
                    some(otherFns, LAMBDA fn :
                        some(fn.stateChanges, LAMBDA sc : sc.target = sv.name))
            IN  IF sv.isDeclaredConst \/ sv.isImmutable \/ sv.isMapping THEN <<>>
                ELSE IF startsWith(sv.typeName, <<"m", "a", "p", "p", "i", "n", "g">>) \/ endsWith(sv.typeName, <<"[", "]">>)
                THEN <<>>
                ELSE IF sv.typeName = <<"s", "t", "r", "i", "n", "g">> \/ sv.typeName = <<"b", "y", "t", "e", "s">> THEN <<>>
                ELSE IF setInCtor /\ ~modifiedElsewhere
                THEN <<GasIssue(<<"g", "a", "s", "_", "i", "m", "m", "u", "t", "a", "b", "l", "e", "_">> \o sv.name,
                           Msg("Use immutable for ${sv.name}", <<sv.name>>, <<>>),
                           Msg("${sv.name} is only set in constructor and never modified afterward",
                               <<sv.name>>, <<>>),
                           "~2100 gas saved per read (SLOAD replaced by code copy)",
                           Msg("Declare as: ${sv.typeName} public immutable ${sv.name}",
                               <<sv.typeName, sv.name>>, <<>>))>>
                ELSE <<>>])

detectCalldataParams(c) ==
    Flatten([i \in 1..Len(c.functions) |->
        LET fn == c.functions[i]
        IN  IF fn.visibility # "external" THEN <<>>
            ELSE Flatten([j \in 1..Len(fn.params) |->
                     LET param == fn.params[j]
                     IN  IF endsWith(param.type, <<"[", "]">>) \/ param.type = <<"s", "t", "r", "i", "n", "g">>
                            \/ param.type = <<"b", "y", "t", "e", "s">>
                         THEN <<GasIssue(<<"g", "a", "s", "_", "c", "a", "l", "l", "d", "a", "t", "a", "_">> \o fn.name \o <<"_">> \o param.name,
                                    Msg("Use calldata for ${param.name} in ${fn.name}()",
                                        <<param.name, fn.name>>, <<>>),
                                    Msg("${param.name} (${param.type}) can use calldata instead of memory",
                                        <<param.name, param.type>>, <<>>),
                                    "~600+ gas saved (avoids memory copy)",
                                    Msg("Change parameter to: ${param.type} calldata ${param.name}",
                                        <<param.type, param.name>>, <<>>))>>
                         ELSE <<>>])])

detectGasIssues(c) ==
    detectNonIndexedEvents(c) \o detectImmutableCandidates(c) \o detectCalldataParams(c)

(***************************************************************************)
(* Test synthesis (generateFoundryTests).  A source file is its list of    *)
(* lines; a line is the template literal that pushes it with the strings   *)
(* interpolated into it, in order.                                         *)
(***************************************************************************)
Line(text) == Msg(text, <<>>, <<>>)

\* a line that interpolates a title, a description or a fix
Embed(before, m, after) == Msg(before \o m.template \o after, m.strs, m.nums)

mapType(solType) ==
    IF solType = <<"s", "t", "r", "i", "n", "g">> THEN <<"s", "t", "r", "i", "n", "g", " ", "m", "e", "m", "o", "r", "y">>
    ELSE IF solType = <<"b", "y", "t", "e", "s">> THEN <<"b", "y", "t", "e", "s", " ", "m", "e", "m", "o", "r", "y">>
    ELSE IF solType \in {<<"a", "d", "d", "r", "e", "s", "s">>, <<"u", "i", "n", "t", "2", "5", "6">>, <<"u", "i", "n", "t", "1", "2", "8">>, <<"u", "i", "n", "t", "6", "4">>, <<"u", "i", "n", "t", "3", "2">>, <<"u", "i", "n", "t", "8">>,
                         <<"i", "n", "t", "2", "5", "6">>, <<"i", "n", "t", "1", "2", "8">>, <<"b", "o", "o", "l">>, <<"b", "y", "t", "e", "s", "3", "2">>, <<"b", "y", "t", "e", "s", "4">>}
    THEN solType
    ELSE IF endsWith(solType, <<"[", "]">>) THEN solType \o <<" ", "m", "e", "m", "o", "r", "y">>
    ELSE solType

\* the Map filled by ghostVars.set(g.name, g): keys in order of first
\* insertion, each with the value set last
collectGhostVars(invs) ==
    LET all == Flatten([i \in 1..Len(invs) |-> invs[i].ghostVars])
        isFirst(i) == \A j \in 1..(i - 1) : all[j].name # all[i].name
        firsts == SelectSeq([i \in 1..Len(all) |-> i], isFirst)
        lastOf(name) ==
            all[CHOOSE j \in 1..Len(all) :
                    /\ all[j].name = name
                    /\ \A k \in (j + 1)..Len(all) : all[k].name # name]
    IN  [k \in 1..Len(firsts) |-> lastOf(all[firsts[k]].name)]

\* the update statement, or nothing where the code returns null
getGhostUpdate(gName, fn) ==
    LET name == toLowerCase(fn.name)
        isPayable == fn.stateMutability = "payable"
        isAmount(p) ==
            p.type = <<"u", "i", "n", "t", "2", "5", "6">> /\ p.name \in {<<"a", "m", "o", "u", "n", "t">>, <<"_", "a", "m", "o", "u", "n", "t">>, <<"v", "a", "l", "u", "e">>}
        amountParams == SelectSeq(fn.params, isAmount)
        withAmount(before) ==
            IF amountParams = <<>> THEN <<>>
            ELSE <<before \o amountParams[1].name \o <<";">>>>
    IN  IF gName = <<"g", "h", "o", "s", "t", "_", "b", "a", "l", "a", "n", "c", "e", "S", "u", "m">>
        THEN IF isPayable THEN <<<<"g", "h", "o", "s", "t", "_", "b", "a", "l", "a", "n", "c", "e", "S", "u", "m", " ", "+", "=", " ", "v", "a", "l", "u", "e", ";">>>>
             ELSE IF includes(name, <<"w", "i", "t", "h", "d", "r", "a", "w">>) \/ includes(name, <<"u", "n", "s", "t", "a", "k", "e">>)
                     \/ includes(name, <<"b", "u", "r", "n">>)
             THEN withAmount(<<"g", "h", "o", "s", "t", "_", "b", "a", "l", "a", "n", "c", "e", "S", "u", "m", " ", "-", "=", " ">>)
             ELSE IF includes(name, <<"m", "i", "n", "t">>) \/ name = <<"_", "m", "i", "n", "t">>
             THEN withAmount(<<"g", "h", "o", "s", "t", "_", "b", "a", "l", "a", "n", "c", "e", "S", "u", "m", " ", "+", "=", " ">>)
             ELSE <<>>
        ELSE IF gName = <<"g", "h", "o", "s", "t", "_", "t", "o", "t", "a", "l", "M", "i", "n", "t", "e", "d">>
        THEN IF includes(name, <<"m", "i", "n", "t">>) THEN withAmount(<<"g", "h", "o", "s", "t", "_", "t", "o", "t", "a", "l", "M", "i", "n", "t", "e", "d", " ", "+", "=", " ">>) ELSE <<>>
        ELSE IF gName = <<"g", "h", "o", "s", "t", "_", "s", "e", "n", "d", "e", "r", "D", "e", "c", "r", "e", "a", "s", "e">>
        THEN IF includes(name, <<"t", "r", "a", "n", "s", "f", "e", "r">>) THEN withAmount(<<"g", "h", "o", "s", "t", "_", "s", "e", "n", "d", "e", "r", "D", "e", "c", "r", "e", "a", "s", "e", " ", "+", "=", " ">>)
             ELSE <<>>
        ELSE IF gName = <<"g", "h", "o", "s", "t", "_", "r", "e", "c", "e", "i", "v", "e", "r", "I", "n", "c", "r", "e", "a", "s", "e">>
        THEN IF includes(name, <<"t", "r", "a", "n", "s", "f", "e", "r">>) THEN withAmount(<<"g", "h", "o", "s", "t", "_", "r", "e", "c", "e", "i", "v", "e", "r", "I", "n", "c", "r", "e", "a", "s", "e", " ", "+", "=", " ">>)
             ELSE <<>>
        ELSE <<>>

\* a handler function that updates the ghost variables ahead of the call
generateHandlerFunctionUpdatingFirst(c, fn, ghostVars) ==
    LET params ==
            <<<<"u", "i", "n", "t", "2", "5", "6", " ", "a", "c", "t", "o", "r", "S", "e", "e", "d">>>>
                \o [i \in 1..Len(fn.params) |->
                       mapType(fn.params[i].type) \o <<" ">> \o fn.params[i].name]
        boundingLines ==
            Flatten([i \in 1..Len(fn.params) |->
                LET p == fn.params[i]
                IN  (IF p.type \in {<<"u", "i", "n", "t", "2", "5", "6">>, <<"u", "i", "n", "t", "1", "2", "8">>, <<"u", "i", "n", "t", "6", "4">>}
                     THEN <<Msg("        ${p.name} = bound(${p.name}, 0, type(uint96).max);",
                                <<p.name, p.name>>, <<>>)>>
                     ELSE <<>>)
                    \o (IF p.type = <<"a", "d", "d", "r", "e", "s", "s">>
                        THEN <<Msg("        ${p.name} = address(uint160(bound(uint256(uint160(${p.name})), 1, type(uint160).max)));",
                                   <<p.name, p.name>>, <<>>)>>
                        ELSE <<>>)])
        callArgs == [i \in 1..Len(fn.params) |-> fn.params[i].name]
        ghostUpdates ==
            Flatten([k \in 1..Len(ghostVars) |->
                IF some(ghostVars[k].trackIn, LAMBDA t : t = fn.name)
                THEN getGhostUpdate(ghostVars[k].name, fn)
                ELSE <<>>])
        valueStr == IF fn.stateMutability = "payable" THEN <<"{", "v", "a", "l", "u", "e", ":", " ", "v", "a", "l", "u", "e", "}">> ELSE <<>>
    IN  <<Msg("    function ${fn.name}(${params}) public useActor(actorSeed) {",
              <<fn.name, join(params, <<",", " ">>)>>, <<>>),
          Line("        callCount++;")>>
        \o boundingLines
        \o (IF fn.stateMutability = "payable"
            THEN <<Line("        uint256 value = bound(actorSeed, 0, 10 ether);"),
                   Line("        deal(currentActor, value);")>>
            ELSE <<>>)
        \o [k \in 1..Len(ghostUpdates) |-> Msg("            ${u}", <<ghostUpdates[k]>>, <<>>)]
        \o (IF Len(callArgs) > 0
            THEN <<Msg("        try target.${fn.name}${valueStr}(${callArgs}) {",
                       <<fn.name, valueStr, join(callArgs, <<",", " ">>)>>, <<>>)>>
            ELSE <<Msg("        try target.${fn.name}${valueStr}() {",
                       <<fn.name, valueStr>>, <<>>)>>)
        \o <<Line("        } catch {}"), Line("    }")>>

generateHandlerFunction(c, fn, ghostVars) ==
    LET params ==
            <<<<"u", "i", "n", "t", "2", "5", "6", " ", "a", "c", "t", "o", "r", "S", "e", "e", "d">>>>
                \o [i \in 1..Len(fn.params) |->
                       mapType(fn.params[i].type) \o <<" ">> \o fn.params[i].name]
        boundingLines ==
            Flatten([i \in 1..Len(fn.params) |->
                LET p == fn.params[i]
                IN  (IF p.type \in {<<"u", "i", "n", "t", "2", "5", "6">>, <<"u", "i", "n", "t", "1", "2", "8">>, <<"u", "i", "n", "t", "6", "4">>}
                     THEN <<Msg("        ${p.name} = bound(${p.name}, 0, type(uint96).max);",
                                <<p.name, p.name>>, <<>>)>>
                     ELSE <<>>)
                    \o (IF p.type = <<"a", "d", "d", "r", "e", "s", "s">>
                        THEN <<Msg("        ${p.name} = address(uint160(bound(uint256(uint160(${p.name})), 1, type(uint160).max)));",
                                   <<p.name, p.name>>, <<>>)>>
                        ELSE <<>>)])
        callArgs == [i \in 1..Len(fn.params) |-> fn.params[i].name]
        ghostUpdates ==
            Flatten([k \in 1..Len(ghostVars) |->
                IF some(ghostVars[k].trackIn, LAMBDA t : t = fn.name)
                THEN getGhostUpdate(ghostVars[k].name, fn)
                ELSE <<>>])
        valueStr == IF fn.stateMutability = "payable" THEN <<"{", "v", "a", "l", "u", "e", ":", " ", "v", "a", "l", "u", "e", "}">> ELSE <<>>
    IN  <<Msg("    function ${fn.name}(${params}) public useActor(actorSeed) {",
              <<fn.name, join(params, <<",", " ">>)>>, <<>>),
          Line("        callCount++;")>>
        \o boundingLines
        \o (IF fn.stateMutability = "payable"
            THEN <<Line("        uint256 value = bound(actorSeed, 0, 10 ether);"),
                   Line("        deal(currentActor, value);")>>
            ELSE <<>>)
        \o (IF Len(callArgs) > 0
            THEN <<Msg("        try target.${fn.name}${valueStr}(${callArgs}) {",
                       <<fn.name, valueStr, join(callArgs, <<",", " ">>)>>, <<>>)>>
            ELSE <<Msg("        try target.${fn.name}${valueStr}() {",
                       <<fn.name, valueStr>>, <<>>)>>)
        \o [k \in 1..Len(ghostUpdates) |-> Msg("            ${u}", <<ghostUpdates[k]>>, <<>>)]
        \o <<Line("        } catch {}"), Line("    }")>>

\* a handler that wraps every function of the model, the constructor, the
\* internal and the special ones included
generateHandlerWrappingAll(c, invs) ==
    <<Msg("contract ${name}Handler is Test {", <<c.name>>, <<>>),
      Msg("    ${name} public target;", <<c.name>>, <<>>),
      Line("")>>
    \o Flatten([i \in 1..Len(c.functions) |->
           generateHandlerFunction(c, c.functions[i], collectGhostVars(invs))
               \o <<Line("")>>])
    \o <<Line("}")>>

generateHandler(c, invs) ==
    LET name == c.name
        ghostVars == collectGhostVars(invs)
        has(gName) == some(ghostVars, LAMBDA g : g.name = gName)
        wrapped(fn) ==
            ~(fn.isConstructor \/ fn.visibility = "internal" \/ fn.visibility = "private")
            /\ ~(fn.name = <<"r", "e", "c", "e", "i", "v", "e">> \/ fn.name = <<"f", "a", "l", "l", "b", "a", "c", "k">> \/ fn.name = <<>>)
    IN  <<Msg("contract ${name}Handler is Test {", <<name>>, <<>>),
          Msg("    ${name} public target;", <<name>>, <<>>),
          Line(""),
          Line("    // Ghost variables for invariant tracking")>>
        \o [k \in 1..Len(ghostVars) |->
               Msg("    ${g.type} public ${gName};",
                   <<ghostVars[k].type, ghostVars[k].name>>, <<>>)]
        \o <<Line("    uint256 public callCount;"),
             Line(""),
             Line("    // Actor management"),
             Line("    address[] public actors;"),
             Line("    address internal currentActor;"),
             Line(""),
             Line("    modifier useActor(uint256 actorSeed) {"),
             Line("        if (actors.length == 0) {"),
             Line("            actors.push(address(0x1));"),
             Line("            actors.push(address(0x2));"),
             Line("            actors.push(address(0x3));"),
             Line("        }"),
             Line("        currentActor = actors[actorSeed % actors.length];"),
             Line("        vm.startPrank(currentActor);"),
             Line("        _;"),
             Line("        vm.stopPrank();"),
             Line("    }"),
             Line(""),
             Msg("    constructor(${name} _target) {", <<name>>, <<>>),
             Line("        target = _target;"),
             Line("    }"),
             Line("")>>
        \o (IF has(<<"g", "h", "o", "s", "t", "_", "b", "a", "l", "a", "n", "c", "e", "S", "u", "m">>)
            THEN <<Line("    function initGhostBalanceSum(uint256 _val) external {"),
                   Line("        ghost_balanceSum = _val;"),
                   Line("    }"),
                   Line("")>>
            ELSE <<>>)
        \o (IF has(<<"g", "h", "o", "s", "t", "_", "t", "o", "t", "a", "l", "M", "i", "n", "t", "e", "d">>)
            THEN <<Line("    function initGhostTotalMinted(uint256 _val) external {"),
                   Line("        ghost_totalMinted = _val;"),
                   Line("    }"),
                   Line("")>>
            ELSE <<>>)
        \o Flatten([i \in 1..Len(c.functions) |->
               IF wrapped(c.functions[i])
               THEN generateHandlerFunction(c, c.functions[i], ghostVars) \o <<Line("")>>
               ELSE <<>>])
        \o <<Line("}")>>

WordChars ==
    {UpperChars[i] : i \in 1..Len(UpperChars)} \cup {LowerChars[i] : i \in 1..Len(LowerChars)}
        \cup {"0", "1", "2", "3", "4", "5", "6", "7", "8", "9", "_"}

\* code.replace(new RegExp(pattern, "g"), replacement), from position i on:
\* every match from left to right, none overlapping the one before it; with
\* atWordBoundary the pattern starts with \b.  The pattern is put together
\* from a name without escaping: the letters, digits and _ of a name match
\* themselves, a $ in it is the end-of-input assertion, and as every pattern
\* goes on after the name (with \. or \)) a pattern holding a $ matches nowhere
RECURSIVE replaceAllFrom(_, _, _, _, _)
replaceAllFrom(code, i, pattern, replacement, atWordBoundary) ==
    LET matchAt(j) ==
            /\ \A k \in 1..Len(pattern) : pattern[k] # "$"
            /\ j + Len(pattern) - 1 <= Len(code)
            /\ SubSeq(code, j, j + Len(pattern) - 1) = pattern
            /\ \/ ~atWordBoundary
               \/ (j > 1 /\ code[j - 1] \in WordChars) # (pattern[1] \in WordChars)
        matches == {j \in i..Len(code) : matchAt(j)}
    IN  IF matches = {} THEN SubSeq(code, i, Len(code))
        ELSE LET first == CHOOSE j \in matches : \A k \in matches : j <= k
             IN  SubSeq(code, i, first - 1) \o replacement
                     \o replaceAllFrom(code, first + Len(pattern), pattern, replacement,
                                       atWordBoundary)

\* an invariant function written only for an invariant that carries an
\* assertion template, any other invariant left out without a word
generateInvariantFunctionOrNothing(c, inv) ==
    IF inv.invariantCode = <<>> THEN <<>>
    ELSE <<Msg("    function invariant_${inv.id}() public view {", <<inv.id>>, <<>>),
           Msg("        ${code};", <<inv.invariantCode>>, <<>>),
           Line("    }")>>

generateInvariantFunction(c, inv) ==
    LET lcName == toLowerCase(c.name)
        code1 == replaceAllFrom(inv.invariantCode, 1, lcName \o <<".">>, <<"t", "a", "r", "g", "e", "t", ".">>, TRUE)
        code2 == replaceAllFrom(code1, 1, c.name \o <<".">>, <<"t", "a", "r", "g", "e", "t", ".">>, TRUE)
        code3 == replaceAllFrom(code2, 1, <<"a", "d", "d", "r", "e", "s", "s", "(">> \o lcName \o <<")">>, <<"a", "d", "d", "r", "e", "s", "s", "(", "t", "a", "r", "g", "e", "t", ")">>, FALSE)
        code == replaceAllFrom(code3, 1, <<"a", "d", "d", "r", "e", "s", "s", "(">> \o c.name \o <<")">>, <<"a", "d", "d", "r", "e", "s", "s", "(", "t", "a", "r", "g", "e", "t", ")">>, FALSE)
    IN  <<Embed("    /// " \o inv.severity \o ": ", inv.title, ""),
          Embed("    /// ", inv.description, ""),
          Msg("    function invariant_${inv.id}() public view {", <<inv.id>>, <<>>)>>
        \o (IF inv.invariantCode # <<>>
            THEN <<Msg("        ${code};", <<code>>, <<>>)>>
            ELSE <<Line("        // TODO: Implement this invariant check"),
                   Embed("        // ", inv.description, "")>>
                 \o (IF includes(inv.id, <<"z", "e", "r", "o", "_", "a", "d", "d", "r", "e", "s", "s">>)
                     THEN <<Line("        // Verify: transfer to address(0) should always revert"),
                            Line("        // This is tested via the handler's bounded address inputs")>>
                     ELSE IF includes(inv.id, <<"a", "c", "c", "e", "s", "s", "_", "c", "o", "n", "t", "r", "o", "l">>)
                     THEN <<Line("        // Verify: protected functions revert for non-owners")>>
                     ELSE IF includes(inv.id, <<"p", "a", "u", "s", "a", "b", "l", "e">>)
                     THEN <<Line("        // Verify: paused state blocks protected functions")>>
                     ELSE <<>>))
        \o <<Line("    }")>>

\* the constructor argument written for a parameter
constructorArg(p) ==
    IF p.type = <<"s", "t", "r", "i", "n", "g">> THEN <<"\"", "T", "e", "s", "t", "\"">>
    ELSE IF p.type = <<"a", "d", "d", "r", "e", "s", "s">> THEN <<"a", "d", "d", "r", "e", "s", "s", "(", "t", "h", "i", "s", ")">>
    ELSE IF p.type = <<"b", "o", "o", "l">> THEN <<"t", "r", "u", "e">>
    ELSE IF p.type = <<"u", "i", "n", "t", "8">> THEN <<"1", "8">>
    ELSE IF p.type = <<"b", "y", "t", "e", "s", "3", "2">> THEN <<"b", "y", "t", "e", "s", "3", "2", "(", "0", ")">>
    ELSE IF p.type = <<"b", "y", "t", "e", "s", "4">> THEN <<"b", "y", "t", "e", "s", "4", "(", "0", ")">>
    ELSE IF startsWith(p.type, <<"u", "i", "n", "t">>) THEN <<"1", "0", "0", "0", "0", "0", "0">>
    ELSE IF startsWith(p.type, <<"i", "n", "t">>) THEN <<"i", "n", "t", "2", "5", "6", "(", "0", ")">>
    ELSE IF p.type = <<"b", "y", "t", "e", "s">> THEN <<"\"", "\"">>
    ELSE IF endsWith(p.type, <<"[", "]">>) THEN <<"n", "e", "w", " ">> \o p.type \o <<"(", "0", ")">>
    ELSE <<"0">>

getSetupLines(c) ==
    LET ctors == SelectSeq(c.functions, LAMBDA f : f.isConstructor)
    IN  IF ctors # <<>> /\ Len(ctors[1].params) > 0
        THEN <<Msg("        target = new ${contract.name}(${args});",
                   <<c.name, join([i \in 1..Len(ctors[1].params) |->
                                      constructorArg(ctors[1].params[i])], <<",", " ">>)>>, <<>>)>>
        ELSE <<Msg("        target = new ${contract.name}();", <<c.name>>, <<>>)>>

generateInvariantTest(c, invs) ==
    LET name == c.name
        ghostVars == collectGhostVars(invs)
        has(gName) == some(ghostVars, LAMBDA g : g.name = gName)
        hasSupplyVar == someNamed(c.stateVars, supplyVarNames)
        supplyVar == findByName(c.stateVars, supplyVarNames)
    IN  <<Line("// SPDX-License-Identifier: MIT"),
          Line("pragma solidity ^0.8.20;"),
          Line(""),
          Line("import \"forge-std/Test.sol\";"),
          Line("// TODO: Update this import path to match your project structure"),
          Msg("import \"../src/${name}.sol\";", <<name>>, <<>>),
          Line("")>>
        \o generateHandler(c, invs)
        \o <<Line(""),
             Msg("contract ${name}InvariantTest is Test {", <<name>>, <<>>),
             Msg("    ${name} public target;", <<name>>, <<>>),
             Msg("    ${name}Handler public handler;", <<name>>, <<>>),
             Line(""),
             Line("    function setUp() public {")>>
        \o getSetupLines(c)
        \o <<Msg("        handler = new ${name}Handler(target);", <<name>>, <<>>)>>
        \o (IF has(<<"g", "h", "o", "s", "t", "_", "b", "a", "l", "a", "n", "c", "e", "S", "u", "m">>) /\ hasSupplyVar
            THEN <<Line("        // Initialize ghost to match initial supply from constructor"),
                   Msg("        handler.initGhostBalanceSum(target.${supplyVar.name}());",
                       <<supplyVar.name>>, <<>>)>>
            ELSE <<>>)
        \o (IF has(<<"g", "h", "o", "s", "t", "_", "t", "o", "t", "a", "l", "M", "i", "n", "t", "e", "d">>) /\ hasSupplyVar
            THEN <<Msg("        handler.initGhostTotalMinted(target.${supplyVar.name}());",
                       <<supplyVar.name>>, <<>>)>>
            ELSE <<>>)
        \o <<Line("        targetContract(address(handler));"),
             Line("    }"),
             Line("")>>
        \o Flatten([i \in 1..Len(invs) |->
               generateInvariantFunction(c, invs[i]) \o <<Line("")>>])
        \o <<Line("}")>>

getAttackArgsFixed(c, fnName) ==
    IF ~someNamed(c.functions, {fnName}) THEN <<"(", ")">>
    ELSE
    LET fn == findByName(c.functions, {fnName})
        arg(p) ==
            IF p.type = <<"u", "i", "n", "t", "2", "5", "6">> THEN <<"d", "e", "p", "o", "s", "i", "t", "A", "m", "o", "u", "n", "t">>
            ELSE IF p.type = <<"a", "d", "d", "r", "e", "s", "s">> THEN <<"a", "d", "d", "r", "e", "s", "s", "(", "t", "h", "i", "s", ")">>
            ELSE <<"0">>
        valueStr == IF fn.stateMutability = "payable" THEN <<"{", "v", "a", "l", "u", "e", ":", " ", "d", "e", "p", "o", "s", "i", "t", "A", "m", "o", "u", "n", "t", "}">> ELSE <<>>
    IN  IF Len(fn.params) = 0
        THEN IF fn.stateMutability = "payable" THEN <<"{", "v", "a", "l", "u", "e", ":", " ", "d", "e", "p", "o", "s", "i", "t", "A", "m", "o", "u", "n", "t", "}", "(", ")">> ELSE <<"(", ")">>
        ELSE valueStr \o <<"(">> \o join([i \in 1..Len(fn.params) |-> arg(fn.params[i])], <<",", " ">>)
                 \o <<")">>

\* the payable deposit or stake function the attacker and the test fund through
depositFunctions(c) ==
    SelectSeq(c.functions, LAMBDA f :
        (f.name = <<"d", "e", "p", "o", "s", "i", "t">> \/ f.name = <<"s", "t", "a", "k", "e">>) /\ f.stateMutability = "payable")

generateAttackerContract(c, vs) ==
    LET name == c.name
        reentrancyVulns == SelectSeq(vs, LAMBDA v : includes(v.id, <<"r", "e", "e", "n", "t", "r", "a", "n", "c", "y">>))
        depositFns == depositFunctions(c)
    IN  <<Msg("contract ${name}Attacker {", <<name>>, <<>>),
          Msg("    ${name} public target;", <<name>>, <<>>),
          Line("    uint256 public attackCount;"),
          Line("    uint256 public maxAttacks = 3;"),
          Line("    uint256 public depositAmount;"),
          Line(""),
          Msg("    constructor(${name} _target) {", <<name>>, <<>>),
          Line("        target = _target;"),
          Line("    }"),
          Line("")>>
        \o Flatten([i \in 1..Len(reentrancyVulns) |->
               LET v == reentrancyVulns[i]
               IN  <<Msg("    function attack_${v.function}() external payable {",
                         <<v.function>>, <<>>)>>
                   \o (IF depositFns # <<>>
                       THEN <<Line("        depositAmount = msg.value;"),
                              Msg("        ${depositCall}{value: msg.value}();",
                                  <<<<"t", "a", "r", "g", "e", "t", ".">> \o depositFns[1].name>>, <<>>)>>
                       ELSE <<>>)
                   \o <<Msg("        target.${v.function}${args};",
                            <<v.function, getAttackArgsFixed(c, v.function)>>, <<>>),
                        Line("    }"),
                        Line("")>>])
        \o <<Line("    receive() external payable {"),
             Line("        if (attackCount < maxAttacks) {"),
             Line("            attackCount++;")>>
        \o [i \in 1..Len(reentrancyVulns) |->
               Msg("            try target.${v.function}${args} {} catch {}",
                   <<reentrancyVulns[i].function,
                     getAttackArgsFixed(c, reentrancyVulns[i].function)>>, <<>>)]
        \o <<Line("        }"),
             Line("    }"),
             Line("}")>>

generateVulnTestFunction(c, vuln) ==
    LET head ==
            <<Embed("    /// @notice Test: ", vuln.title, ""),
              Embed("    /// ", vuln.description, ""),
              Msg("    function test_${vuln.id}() public {", <<vuln.id>>, <<>>)>>
        depositFns == depositFunctions(c)
    IN  IF includes(vuln.id, <<"r", "e", "e", "n", "t", "r", "a", "n", "c", "y">>)
        THEN head
             \o <<Line("        // Setup: Give user1 some ETH and deposit into the contract"),
                  Line("        deal(address(user1), 10 ether);"),
                  Line("        vm.startPrank(user1);")>>
             \o (IF depositFns # <<>>
                 THEN <<Msg("        target.${depositFn.name}{value: 5 ether}();",
                            <<depositFns[1].name>>, <<>>)>>
                 ELSE <<>>)
             \o <<Line("        vm.stopPrank();"),
                  Line(""),
                  Line("        // Attack: Attacker deposits 1 ETH, then exploits reentrancy to drain more"),
                  Line("        deal(address(attacker), 1 ether);"),
                  Line("        uint256 contractBalBefore = address(target).balance;"),
                  Msg("        attacker.attack_${vuln.function}{value: 1 ether}();",
                      <<vuln.function>>, <<>>),
                  Line(""),
                  Line("        // If vulnerable: attacker drained more than their 1 ETH deposit"),
                  Line("        uint256 attackerBal = address(attacker).balance;"),
                  Line("        // This assertion PASSES if the contract IS vulnerable (attacker profits)"),
                  Line("        // Fix the contract, then this test should FAIL"),
                  Line("        assertGt(attackerBal, 1 ether, \"Reentrancy: attacker should have drained extra ETH\");"),
                  Line("    }")>>
        ELSE IF includes(vuln.id, <<"m", "i", "s", "s", "i", "n", "g", "_", "a", "c", "c", "e", "s", "s">>)
        THEN head
             \o <<Msg("        // Non-owner should NOT be able to call ${vuln.function}()",
                      <<vuln.function>>, <<>>),
                  Line("        vm.startPrank(user1);"),
                  Line("        vm.expectRevert();"),
                  Msg("        // TODO: Call target.${vuln.function}() with appropriate args",
                      <<vuln.function>>, <<>>),
                  Msg("        // target.${vuln.function}();", <<vuln.function>>, <<>>),
                  Line("        vm.stopPrank();"),
                  Line("    }")>>
        ELSE IF includes(vuln.id, <<"f", "r", "o", "n", "t", "r", "u", "n">>)
        THEN head
             \o <<Line("        // Demonstrate front-running risk with approve()"),
                  Line("        // 1. User approves spender for 100 tokens"),
                  Line("        // 2. User wants to change approval to 50"),
                  Line("        // 3. Spender front-runs and spends 100 before the change"),
                  Line("        // 4. New approval of 50 goes through"),
                  Line("        // 5. Spender spends 50 more = 150 total (should be max 100)"),
                  Line("        // TODO: Implement with actual token balances"),
                  Line("    }")>>
        ELSE head
             \o <<Line("        // TODO: Implement test for " \o vuln.pattern),
                  Embed("        // Fix suggestion: ", vuln.fix, ""),
                  Line("    }")>>

generateVulnTest(c, vs) ==
    LET name == c.name
        hasReentrancy == some(vs, LAMBDA v : includes(v.id, <<"r", "e", "e", "n", "t", "r", "a", "n", "c", "y">>))
    IN  <<Line("// SPDX-License-Identifier: MIT"),
          Line("pragma solidity ^0.8.20;"),
          Line(""),
          Line("import \"forge-std/Test.sol\";"),
          Line("// TODO: Update this import path to match your project structure"),
          Msg("import \"../src/${name}.sol\";", <<name>>, <<>>),
          Line("")>>
        \o (IF hasReentrancy THEN generateAttackerContract(c, vs) \o <<Line("")>> ELSE <<>>)
        \o <<Msg("contract ${name}VulnTest is Test {", <<name>>, <<>>),
             Msg("    ${name} public target;", <<name>>, <<>>)>>
        \o (IF hasReentrancy
            THEN <<Msg("    ${name}Attacker public attacker;", <<name>>, <<>>)>> ELSE <<>>)
        \o <<Line("    address public owner = address(this);"),
             Line("    address public user1 = address(0x1);"),
             Line("    address public user2 = address(0x2);"),
             Line(""),
             Line("    function setUp() public {")>>
        \o getSetupLines(c)
        \o (IF hasReentrancy
            THEN <<Msg("        attacker = new ${name}Attacker(target);", <<name>>, <<>>)>>
            ELSE <<>>)
        \o <<Line("    }"),
             Line("")>>
        \o Flatten([i \in 1..Len(vs) |-> generateVulnTestFunction(c, vs[i]) \o <<Line("")>>])
        \o <<Line("}")>>

\* generateFoundryTests writing both files whatever the lists hold
generateFoundryTestsAlways(c, invs, vs) ==
    <<[path |-> c.name \o <<".", "i", "n", "v", "a", "r", "i", "a", "n", "t", ".", "t", ".", "s", "o", "l">>, content |-> generateInvariantTest(c, invs)],
      [path |-> c.name \o <<".", "v", "u", "l", "n", ".", "t", ".", "s", "o", "l">>, content |-> generateVulnTest(c, vs)]>>

\* the files written, in order: each a path under the output directory and
\* the lines written to it
generateFoundryTests(c, invs, vs) ==
    (IF Len(invs) > 0
     THEN <<[path |-> c.name \o <<".", "i", "n", "v", "a", "r", "i", "a", "n", "t", ".", "t", ".", "s", "o", "l">>, content |-> generateInvariantTest(c, invs)]>>
     ELSE <<>>)
    \o (IF Len(vs) > 0
        THEN <<[path |-> c.name \o <<".", "v", "u", "l", "n", ".", "t", ".", "s", "o", "l">>, content |-> generateVulnTest(c, vs)]>>
        ELSE <<>>)

(***************************************************************************)
(* Markdown report (analyzer.js generateMarkdownReport).  The clock counts *)
(* half days from 2024-01-01T00:00:00.000Z.                                *)
(***************************************************************************)
DigitChars == <<"0", "1", "2", "3", "4", "5", "6", "7", "8", "9">>

\* new Date().toISOString() when the clock reads t
toISOString(t) ==
    LET day == 1 + (t \div 2)
    IN  <<"2", "0", "2", "4", "-", "0", "1", "-">> \o <<DigitChars[(day \div 10) + 1], DigitChars[(day % 10) + 1]>>
            \o (IF t % 2 = 0 THEN <<"T", "0", "0", ":", "0", "0", ":", "0", "0", ".", "0", "0", "0", "Z">> ELSE <<"T", "1", "2", ":", "0", "0", ":", "0", "0", ".", "0", "0", "0", "Z">>)

\* s.split(sep)[0] for a one-character separator
RECURSIVE splitFirst(_, _)
splitFirst(s, sep) ==
    IF s = <<>> \/ Head(s) = sep THEN <<>>
    ELSE <<Head(s)>> \o splitFirst(Tail(s), sep)

\* the date row written from the whole timestamp
wholeTimestamp(t) == toISOString(t)

\* new Date().toISOString().split("T")[0]
reportDate(t) == splitFirst(toISOString(t), "T")

generateMarkdownReport(contractName, invs, vs, gas, score, t) ==
    LET date == reportDate(t)
    IN  <<Line("# Sol-Shield Security Report"),
          Line(""),
          Line("| Field | Value |"),
          Line("|-------|-------|"),
          Msg("| Contract | ${contractName} |", <<contractName>>, <<>>),
          Msg("| Date | ${date} |", <<date>>, <<>>),
          Msg("| Security Score | **" \o score.grade \o "** (${scoreData.score}/100) |",
              <<>>, <<score.score>>),
          Msg("| Invariants | ${invariants.length} |", <<>>, <<Len(invs)>>),
          Msg("| Vulnerabilities | ${vulns.length} |", <<>>, <<Len(vs)>>),
          Msg("| Gas Optimizations | ${gasIssues.length} |", <<>>, <<Len(gas)>>),
          Line("")>>
        \o (IF Len(vs) > 0
            THEN <<Line("## Vulnerabilities"),
                   Line(""),
                   Line("| Severity | Issue | Line | Pattern | Fix |"),
                   Line("|----------|-------|------|---------|-----|")>>
                 \o [i \in 1..Len(vs) |->
                        LET v == vs[i]
                        IN  Msg("| " \o v.severity \o " | " \o v.title.template
                                    \o (IF v.line = 0 THEN " | - | " ELSE " | ${v.line} | ")
                                    \o v.pattern \o " | " \o v.fix.template \o " |",
                                v.title.strs \o v.fix.strs,
                                v.title.nums \o (IF v.line = 0 THEN <<>> ELSE <<v.line>>)
                                    \o v.fix.nums)]
                 \o <<Line("")>>
            ELSE <<>>)
        \o (IF Len(invs) > 0
            THEN <<Line("## Invariant Properties"),
                   Line(""),
                   Line("| Severity | Property | Pattern | Assertion |"),
                   Line("|----------|----------|---------|-----------|")>>
                 \o [i \in 1..Len(invs) |->
                        LET inv == invs[i]
                        IN  Msg("| " \o inv.severity \o " | " \o inv.title.template \o " | "
                                    \o inv.pattern \o " | ${assertion} |",
                                inv.title.strs
                                    \o <<IF inv.invariantCode # <<>> THEN inv.invariantCode
                                         ELSE <<"M", "a", "n", "u", "a", "l", " ", "c", "h", "e", "c", "k", " ", "n", "e", "e", "d", "e", "d">>>>,
                                inv.title.nums)]
                 \o <<Line("")>>
            ELSE <<>>)
        \o (IF Len(gas) > 0
            THEN <<Line("## Gas Optimizations"),
                   Line(""),
                   Line("| Issue | Savings | Fix |"),
                   Line("|-------|---------|-----|")>>
                 \o [i \in 1..Len(gas) |->
                        LET g == gas[i]
                        IN  Msg("| " \o g.title.template \o " | " \o g.savings \o " | "
                                    \o g.fix.template \o " |",
                                g.title.strs \o g.fix.strs, g.title.nums \o g.fix.nums)]
                 \o <<Line("")>>
            ELSE <<>>)
        \o (IF Len(score.deductions) > 0
            THEN <<Line("## Score Breakdown"),
                   Line(""),
                   Line("Starting score: 100"),
                   Line("")>>
                 \o [i \in 1..Len(score.deductions) |->
                        LET d == score.deductions[i]
                        IN  Msg("- **-${d.pts}** " \o d.severity \o ": " \o d.title.template,
                                d.title.strs, <<d.pts>> \o d.title.nums)]
                 \o <<Line(""),
                      Msg("**Final Score: ${scoreData.score}/100 (" \o score.grade \o ")**",
                          <<>>, <<score.score>>),
                      Line("")>>
            ELSE <<>>)
        \o <<Line("---"),
             Line("*Generated by [sol-shield](https://github.com/xka0085-byte/sol-shield) v0.1.0*")>>

(***************************************************************************)
(* State before anything ran.                                              *)
(***************************************************************************)
Stages == {"model", "invariants", "vulns", "gas", "tests", "score", "report"}

NoNode == [type |-> "None"]
EmptyContract ==
    [name |-> <<>>, kind |-> "contract", baseContracts |-> <<>>, modifiers |-> <<>>, stateVars |-> <<>>, functions |-> <<>>,
     events |-> <<>>, mappings |-> <<>>]
NoScore == [score |-> 100, grade |-> "", deductions |-> <<>>]
NoRun == [ran |-> FALSE]

\* what only the command on a file of any kind reads or writes
cliVars == <<source, mode, format, outcome, analyzed, generatedFiles>>

\* the state of the deployed attacker contract
attackVars == <<attackCount, hooks, reinvoked>>

\* what only a whole run of the command line, or what it wrote, reads or writes
runVars == <<gasIssues, now, runAt, written, previous, cliVars, attackVars>>

\* no command line given: run("full", file, {format: "md"}) on the one contract
NoCommand ==
    /\ source = [exists |-> TRUE, parses |-> TRUE, children |-> <<>>]
    /\ mode = "full"
    /\ format = "md"
    /\ outcome = "pending"
    /\ analyzed = <<>>
    /\ generatedFiles = <<>>

\* nothing analysed yet, no run made
NothingRan ==
    /\ contract = EmptyContract
    /\ invariants = <<>>
    /\ vulns = <<>>
    /\ scoreData = NoScore
    /\ gasIssues = <<>>
    /\ now = 0
    /\ runAt = 0
    /\ written = <<>>
    /\ previous = NoRun
    /\ NoCommand
    /\ attackCount = 0
    /\ hooks = <<>>
    /\ reinvoked = <<>>

(***************************************************************************)
(* Operations.                                                             *)
(***************************************************************************)
\* parseFile: extractContract on the ContractDefinition node
ExtractContract ==
    /\ "model" \notin done
    /\ ast.type = "ContractDefinition"
    /\ contract' = extractContract(ast)
    /\ done' = done \cup {"model"}
    /\ UNCHANGED <<ast, invariants, vulns, scoreData, runVars>>

\* discoverInvariants(contract)
DiscoverInvariants ==
    /\ "model" \in done
    /\ "invariants" \notin done
    /\ invariants' = discoverInvariants(contract)
    /\ done' = done \cup {"invariants"}
    /\ UNCHANGED <<ast, contract, vulns, scoreData, runVars>>

\* detectVulnerabilities(contract)
DetectVulnerabilities ==
    /\ "model" \in done
    /\ "vulns" \notin done
    /\ vulns' = detectVulnerabilities(contract)
    /\ done' = done \cup {"vulns"}
    /\ UNCHANGED <<ast, contract, invariants, scoreData, runVars>>

\* calculateSecurityScore(vulns) on the list at hand
CalculateSecurityScore ==
    /\ "vulns" \in done
    /\ "score" \notin done
    /\ scoreData' = calculateSecurityScore(vulns)
    /\ done' = done \cup {"score"}
    /\ UNCHANGED <<ast, contract, invariants, vulns, runVars>>

\* run("full", file, {format: "md"}) on the file holding the one contract:
\* the whole command, the files it writes included.  The loop skips an
\* interface or a library.
Run ==
    /\ ast.type = "ContractDefinition"
    /\ ast.kind # "interface" /\ ast.kind # "library"
    /\ LET c == extractContract(ast)
           invs == discoverInvariants(c)
           vs == detectVulnerabilities(c)
           gas == detectGasIssues(c)
           score == calculateSecurityScore(vs)
       IN  /\ contract' = c
           /\ invariants' = invs
           /\ vulns' = vs
           /\ gasIssues' = gas
           /\ scoreData' = score
           /\ written' =
                  generateFoundryTests(c, invs, vs)
                      \o <<[path |-> c.name \o <<".", "r", "e", "p", "o", "r", "t", ".", "m", "d">>,
                            content |->
                                generateMarkdownReport(c.name, invs, vs, gas, score, now)]>>
    /\ runAt' = now
    /\ previous' =
           IF "report" \in done
           THEN [ran |-> TRUE, invariants |-> invariants, vulns |-> vulns,
                 gasIssues |-> gasIssues, scoreData |-> scoreData, written |-> written,
                 runAt |-> runAt]
           ELSE NoRun
    /\ done' = Stages
    /\ UNCHANGED <<ast, now, cliVars, attackVars>>

\* time passes
Tick ==
    /\ now < MaxClock
    /\ now' = now + 1
    /\ UNCHANGED <<done, ast, contract, invariants, vulns, scoreData, gasIssues, runAt,
                   written, previous, cliVars, attackVars>>

(***************************************************************************)
(* The command on a file of any kind (cli run): the exits before the loop, *)
(* the loop over the contracts of the file, the reports after it.          *)
(***************************************************************************)
\* parseFile stopping after the first contract definition
parseFileFirstContract(children) ==
    LET nodes == SelectSeq(children, LAMBDA n : n.type = "ContractDefinition")
    IN  IF nodes = <<>> THEN <<>> ELSE <<extractContract(nodes[1])>>

\* parseFile: one ContractModel per ContractDefinition child of the tree
parseFile(children) ==
    LET nodes == SelectSeq(children, LAMBDA n : n.type = "ContractDefinition")
    IN  [i \in 1..Len(nodes) |-> extractContract(nodes[i])]

\* the list generateFoundryTests returns: the paths it pushed
returnedFiles(c, invs, vs) ==
    (IF Len(invs) > 0 THEN <<c.name \o <<".", "i", "n", "v", "a", "r", "i", "a", "n", "t", ".", "t", ".", "s", "o", "l">>>> ELSE <<>>)
    \o (IF Len(vs) > 0 THEN <<c.name \o <<".", "v", "u", "l", "n", ".", "t", ".", "s", "o", "l">>>> ELSE <<>>)

\* run(mode, file, opts): exit(1) on a missing file or a parse error, exit(0)
\* on a file without contracts, else the loop over the contracts that are no
\* interface and no library, then the markdown reports when --format md
RunCommand ==
    /\ outcome = "pending"
    /\ \/ /\ ~source.exists
          /\ outcome' = "exit(1)"
          /\ UNCHANGED <<written, analyzed, generatedFiles>>
       \/ /\ source.exists
          /\ ~source.parses
          /\ outcome' = "exit(1)"
          /\ UNCHANGED <<written, analyzed, generatedFiles>>
       \/ /\ source.exists
          /\ source.parses
          /\ parseFile(source.children) = <<>>
          /\ outcome' = "exit(0)"
          /\ UNCHANGED <<written, analyzed, generatedFiles>>
       \/ /\ source.exists
          /\ source.parses
          /\ parseFile(source.children) # <<>>
          /\ LET cs == SelectSeq(parseFile(source.children),
                           LAMBDA c : c.kind # "interface" /\ c.kind # "library")
                 generates == mode = "generate" \/ mode = "full"
                 tests == [i \in 1..Len(cs) |->
                              generateFoundryTests(cs[i], discoverInvariants(cs[i]),
                                                   detectVulnerabilities(cs[i]))]
                 files == [i \in 1..Len(cs) |->
                              returnedFiles(cs[i], discoverInvariants(cs[i]),
                                            detectVulnerabilities(cs[i]))]
                 reports == [i \in 1..Len(cs) |->
                                [path |-> cs[i].name \o <<".", "r", "e", "p", "o", "r", "t", ".", "m", "d">>,
                                 content |->
                                     generateMarkdownReport(cs[i].name,
                                         discoverInvariants(cs[i]),
                                         detectVulnerabilities(cs[i]), detectGasIssues(cs[i]),
                                         calculateSecurityScore(detectVulnerabilities(cs[i])),
                                         now)]]
             IN  /\ analyzed' = [i \in 1..Len(cs) |-> cs[i].name]
                 /\ generatedFiles' = IF generates THEN Flatten(files) ELSE <<>>
                 /\ written' = (IF generates THEN Flatten(tests) ELSE <<>>)
                                   \o (IF format = "md" THEN reports ELSE <<>>)
          /\ outcome' = "returned"
    /\ UNCHANGED <<done, ast, contract, invariants, vulns, scoreData, gasIssues, now, runAt,
                   previous, source, mode, format, attackVars>>

(***************************************************************************)
(* The attacker contract a run wrote (generateAttackerContract), deployed. *)
(* Its receive hook is                                                     *)
(*     if (attackCount < maxAttacks) {                                     *)
(*         attackCount++;                                                  *)
(*         try target.f(..) {} catch {}      one line per reentrancy       *)
(*     }                                     finding, in order             *)
(* with maxAttacks = 3.  Execution is sequential: the hook counts and      *)
(* makes its first call in one step; while a call is under way the target  *)
(* may send value to the attacker, which runs the hook again inside it; a  *)
(* call that reverts takes every state change made inside it back, the     *)
(* counts of the hooks run inside it included, and the hook goes on.       *)
(***************************************************************************)
\* receive(): the attacker receives value, from the target inside a call the
\* hook made or from anyone when no hook is running
ReceiveValue ==
    /\ "report" \in done
    /\ LET maxAttacks == 3
           lines == Flatten([f \in 1..Len(written) |-> written[f].content])
           calls == SelectSeq(lines, LAMBDA l :
                        l.template = "            try target.${v.function}${args} {} catch {}")
           first == calls[1].strs[1]
           count(n) == IF n \in DOMAIN reinvoked THEN reinvoked[n] ELSE 0
       IN  /\ calls # <<>>
           /\ IF attackCount < maxAttacks
              THEN /\ attackCount' = attackCount + 1
                   /\ hooks' = Append(hooks, [entered |-> attackCount,
                                              tried |-> attackCount + 1, pc |-> 1])
                   /\ reinvoked' =
                          [n \in DOMAIN reinvoked \cup {first} |->
                              IF n = first THEN Min(count(n) + 1, MaxReinvoked) ELSE count(n)]
              ELSE UNCHANGED attackVars
    /\ UNCHANGED <<done, ast, contract, invariants, vulns, scoreData, gasIssues, now, runAt,
                   written, previous, cliVars>>

\* the call the innermost hook is waiting for returns or reverts; the hook
\* makes its next call or, after the last one, returns: the transaction that
\* delivered the value to the outermost hook may then revert as a whole
CallEnds ==
    /\ hooks # <<>>
    /\ LET lines == Flatten([f \in 1..Len(written) |-> written[f].content])
           calls == SelectSeq(lines, LAMBDA l :
                        l.template = "            try target.${v.function}${args} {} catch {}")
           top == hooks[Len(hooks)]
           count(n) == IF n \in DOMAIN reinvoked THEN reinvoked[n] ELSE 0
       IN  \E reverts \in BOOLEAN :
               LET kept == IF reverts THEN top.tried ELSE attackCount
               IN  IF top.pc < Len(calls)
                   THEN LET next == calls[top.pc + 1].strs[1]
                        IN  /\ attackCount' = kept
                            /\ hooks' = [hooks EXCEPT ![Len(hooks)] =
                                            [top EXCEPT !.pc = top.pc + 1, !.tried = kept]]
                            /\ reinvoked' =
                                   [n \in DOMAIN reinvoked \cup {next} |->
                                       IF n = next THEN Min(count(n) + 1, MaxReinvoked)
                                       ELSE count(n)]
                   ELSE /\ hooks' = SubSeq(hooks, 1, Len(hooks) - 1)
                        /\ attackCount' \in
                               IF Len(hooks) = 1 THEN {kept, top.entered} ELSE {kept}
                        /\ UNCHANGED reinvoked
    /\ UNCHANGED <<done, ast, contract, invariants, vulns, scoreData, gasIssues, now, runAt,
                   written, previous, cliVars>>

(***************************************************************************)
(* Syntax trees as the grammar parser builds them, and the bounded sets of *)
(* contracts the specifications start from.                                *)
(***************************************************************************)
Loc(l) == [start |-> [line |-> l]]
Ident(n) == [type |-> "Identifier", name |-> n]
Num(n) == [type |-> "NumberLiteral", number |-> n]
Str(v) == [type |-> "StringLiteral", value |-> v]
Member(e, m) == [type |-> "MemberAccess", expression |-> e, memberName |-> m]
Index(b, i) == [type |-> "IndexAccess", base |-> b, index |-> i]
NameValue(e) == [type |-> "NameValueExpression", expression |-> e]
Call(f, args) == [type |-> "FunctionCall", expression |-> f, arguments |-> args]
BinOp(op, l, r) == [type |-> "BinaryOperation", operator |-> op, left |-> l, right |-> r]
Not(e) == [type |-> "UnaryOperation", operator |-> <<"!">>, subExpression |-> e]

ExprStmt(e, l) == [type |-> "ExpressionStatement", expression |-> e, loc |-> Loc(l)]
VarDecl(init, l) ==
    [type |-> "VariableDeclarationStatement", initialValue |-> init, loc |-> Loc(l)]
Return(e, l) == [type |-> "ReturnStatement", expression |-> e, loc |-> Loc(l)]
Block(stmts, l) == [type |-> "Block", statements |-> stmts, loc |-> Loc(l)]
If(c, t, l) == [type |-> "IfStatement", condition |-> c, trueBody |-> t, loc |-> Loc(l)]
For(b, l) == [type |-> "ForStatement", body |-> b, loc |-> Loc(l)]
DoWhile(c, b, l) == [type |-> "DoWhileStatement", condition |-> c, body |-> b, loc |-> Loc(l)]
Unchecked(b, l) == [type |-> "UncheckedStatement", block |-> b, loc |-> Loc(l)]

Elementary(n) == [type |-> "ElementaryTypeName", name |-> n]
Param(n, t) == [name |-> n, typeName |-> Elementary(t)]

MsgSender == Member(Ident(<<"m", "s", "g">>), <<"s", "e", "n", "d", "e", "r">>)
SendCall == Call(Member(MsgSender, <<"s", "e", "n", "d">>), <<Ident(<<"a", "m", "o", "u", "n", "t">>)>>)
ValueCall == Call(NameValue(Member(MsgSender, <<"c", "a", "l", "l">>)), <<Str(<<>>)>>)
BalanceOfSender == Index(Ident(<<"b", "a", "l", "a", "n", "c", "e", "s">>), MsgSender)
AmountPositive == BinOp(<<">">>, Ident(<<"a", "m", "o", "u", "n", "t">>), Num(<<"0">>))

\* the statement forms the model builder draws a fact from, written at line l
RecognisedForms(l) ==
    {ExprStmt(ValueCall, l),                                   \* msg.sender.call{value: ..}("");
     ExprStmt(SendCall, l),                                    \* msg.sender.send(amount);
     VarDecl(ValueCall, l),                                    \* (bool ok, ) = msg.sender.call{..}("");
     ExprStmt(BinOp(<<"-", "=">>, BalanceOfSender, Ident(<<"a", "m", "o", "u", "n", "t">>)), l),
     If(AmountPositive, Block(<<ExprStmt(ValueCall, l)>>, l), l),
     For(Block(<<ExprStmt(BinOp(<<"+", "=">>, Ident(<<"t", "o", "t", "a", "l">>), Ident(<<"a", "m", "o", "u", "n", "t">>)), l)>>, l), l),
     ExprStmt(Call(Ident(<<"r", "e", "q", "u", "i", "r", "e">>), <<AmountPositive>>), l)}

\* every statement form a function body is put together from, written at line l
StatementForms(l) ==
    RecognisedForms(l) \cup
    {ExprStmt(Call(Member(MsgSender, <<"t", "r", "a", "n", "s", "f", "e", "r">>), <<Ident(<<"a", "m", "o", "u", "n", "t">>)>>), l),
     VarDecl(SendCall, l),                                     \* bool ok = msg.sender.send(amount);
     ExprStmt(BinOp(<<"=">>, Ident(<<"o", "k">>), SendCall), l),         \* ok = msg.sender.send(amount);
     ExprStmt(Call(Ident(<<"r", "e", "q", "u", "i", "r", "e">>), <<SendCall>>), l),       \* require(msg.sender.send(amount));
     If(Not(SendCall), ExprStmt(Call(Ident(<<"r", "e", "v", "e", "r", "t">>), <<>>), l), l),
     Return(SendCall, l),                                      \* return msg.sender.send(amount);
     ExprStmt(BinOp(<<"=">>, Ident(<<"t", "o", "t", "a", "l">>), Num(<<"0">>)), l),
     ExprStmt(BinOp(<<"|", "=">>, Ident(<<"f", "l", "a", "g", "s">>), Num(<<"1">>)), l),    \* flags |= 1;
     DoWhile(AmountPositive, Block(<<ExprStmt(ValueCall, l)>>, l), l),
     Unchecked(Block(<<ExprStmt(BinOp(<<"-", "=">>, Ident(<<"t", "o", "t", "a", "l">>), Ident(<<"a", "m", "o", "u", "n", "t">>)), l)>>, l), l),
     ExprStmt(Call(Ident(<<"r", "e", "q", "u", "i", "r", "e">>),
                   <<BinOp(<<"=", "=">>, MsgSender, Ident(<<"o", "w", "n", "e", "r">>))>>), l)}

\* the bodies of n statements: statement i on line first + i, or every
\* statement on line first + 1 when oneLine; of the recognised forms only
\* when recognised
RECURSIVE BodiesOfLen(_, _, _, _)
BodiesOfLen(n, first, oneLine, recognised) ==
    IF n = 0 THEN {<<>>}
    ELSE LET l == IF oneLine THEN first + 1 ELSE first + n
         IN  {Append(b, s) : b \in BodiesOfLen(n - 1, first, oneLine, recognised),
                             s \in IF recognised THEN RecognisedForms(l)
                                   ELSE StatementForms(l)}

FunctionNode(name, visibility, mutability, isCtor, params, mods, body, l) ==
    [type |-> "FunctionDefinition", name |-> name, visibility |-> visibility,
     stateMutability |-> mutability, isConstructor |-> isCtor, isFallback |-> FALSE,
     isReceiveEther |-> FALSE, parameters |-> params,
     modifiers |-> [i \in 1..Len(mods) |-> [name |-> mods[i]]],
     body |-> Block(body, l), loc |-> Loc(l)]

ContractNode(name, subNodes) ==
    [type |-> "ContractDefinition", name |-> name, kind |-> "contract", subNodes |-> subNodes]

\* one public function withdraw(uint256 amount) with every body of up to
\* MaxStmts statements, and every body of MaxStmts + 1 statements of the
\* recognised forms
BodyInputs ==
    {ContractNode(<<"V", "a", "u", "l", "t">>,
        <<FunctionNode(<<"w", "i", "t", "h", "d", "r", "a", "w">>, "public", "null", FALSE, <<Param(<<"a", "m", "o", "u", "n", "t">>, <<"u", "i", "n", "t", "2", "5", "6">>)>>,
                       <<>>, body, 10)>>) :
        body \in UNION ({BodiesOfLen(n, 10, oneLine, FALSE) :
                            n \in 0..MaxStmts, oneLine \in BOOLEAN}
                        \cup {BodiesOfLen(MaxStmts + 1, 10, oneLine, TRUE) :
                                 oneLine \in BOOLEAN})}

SampleFunctionNames ==
    {<<"m", "i", "n", "t">>, <<"b", "u", "r", "n">>, <<"p", "a", "u", "s", "e">>, <<"u", "n", "p", "a", "u", "s", "e">>, <<"w", "i", "t", "h", "d", "r", "a", "w">>, <<"s", "e", "t", "O", "w", "n", "e", "r">>, <<"t", "r", "a", "n", "s", "f", "e", "r", "O", "w", "n", "e", "r", "s", "h", "i", "p">>,
     <<"u", "p", "g", "r", "a", "d", "e">>, <<"s", "e", "l", "f", "d", "e", "s", "t", "r", "u", "c", "t">>, <<"d", "e", "s", "t", "r", "o", "y">>, <<"s", "a", "f", "e", "M", "i", "n", "t">>, <<"e", "m", "e", "r", "g", "e", "n", "c", "y", "W", "i", "t", "h", "d", "r", "a", "w">>,
     <<"a", "p", "p", "r", "o", "v", "e">>, <<"d", "e", "p", "o", "s", "i", "t">>}

\* one function of every sampled name, visibility, modifier list, parameter
\* list and leading require
AccessInputs ==
    {ContractNode(<<"T", "o", "k", "e", "n">>,
        <<FunctionNode(name, visibility, "null", FALSE, params, mods, body, 10)>>) :
        name \in SampleFunctionNames,
        visibility \in {"public", "external", "internal", "private"},
        params \in {<<>>, <<Param(<<"t", "o">>, <<"a", "d", "d", "r", "e", "s", "s">>), Param(<<"a", "m", "o", "u", "n", "t">>, <<"u", "i", "n", "t", "2", "5", "6">>)>>},
        mods \in {<<>>, <<<<"o", "n", "l", "y", "O", "w", "n", "e", "r">>>>, <<<<"n", "o", "n", "R", "e", "e", "n", "t", "r", "a", "n", "t">>>>},
        body \in {<<>>,
                  <<ExprStmt(Call(Ident(<<"r", "e", "q", "u", "i", "r", "e">>), <<AmountPositive>>), 11)>>,
                  <<ExprStmt(Call(Ident(<<"r", "e", "q", "u", "i", "r", "e">>),
                                  <<BinOp(<<"=", "=">>, MsgSender, Ident(<<"o", "w", "n", "e", "r">>))>>), 11)>>}}

VulnInputs == BodyInputs \cup AccessInputs

(***************************************************************************)
(* Contracts with state variables and several functions, for invariant     *)
(* discovery.                                                              *)
(***************************************************************************)
MappingType(k, v) == [type |-> "Mapping", keyType |-> Elementary(k), valueType |-> Elementary(v)]

\* one StateVariableDeclaration node declaring one variable
StateVarNode(name, typeName) ==
    [type |-> "StateVariableDeclaration",
     variables |-> <<[name |-> name, typeName |-> typeName, visibility |-> "public",
                      isDeclaredConst |-> FALSE, isImmutable |-> FALSE]>>]

\* the state variable lists a sampled contract declares
SampleStateVars ==
    LET BalancesVar == StateVarNode(<<"b", "a", "l", "a", "n", "c", "e", "s">>, MappingType(<<"a", "d", "d", "r", "e", "s", "s">>, <<"u", "i", "n", "t", "2", "5", "6">>))
        AllowancesVar == StateVarNode(<<"a", "l", "l", "o", "w", "a", "n", "c", "e", "s">>, MappingType(<<"a", "d", "d", "r", "e", "s", "s">>, <<"u", "i", "n", "t", "2", "5", "6">>))
        TotalSupplyVar == StateVarNode(<<"t", "o", "t", "a", "l", "S", "u", "p", "p", "l", "y">>, Elementary(<<"u", "i", "n", "t", "2", "5", "6">>))
        TotalDepositedVar == StateVarNode(<<"t", "o", "t", "a", "l", "D", "e", "p", "o", "s", "i", "t", "e", "d">>, Elementary(<<"u", "i", "n", "t", "2", "5", "6">>))
        UserCountVar == StateVarNode(<<"u", "s", "e", "r", "C", "o", "u", "n", "t">>, Elementary(<<"u", "i", "n", "t", "2", "5", "6">>))
        OwnerVar == StateVarNode(<<"o", "w", "n", "e", "r">>, Elementary(<<"a", "d", "d", "r", "e", "s", "s">>))
        PausedVar == StateVarNode(<<"p", "a", "u", "s", "e", "d">>, Elementary(<<"b", "o", "o", "l">>))
        SharesVar == StateVarNode(<<"s", "h", "a", "r", "e", "s">>, MappingType(<<"a", "d", "d", "r", "e", "s", "s">>, <<"u", "i", "n", "t", "2", "5", "6">>))
        AccountingVar == StateVarNode(<<"a", "c", "c", "o", "u", "n", "t", "i", "n", "g">>, MappingType(<<"a", "d", "d", "r", "e", "s", "s">>, <<"u", "i", "n", "t", "2", "5", "6">>))
    IN  {<<>>,
         <<BalancesVar, TotalSupplyVar>>,
         <<BalancesVar, TotalDepositedVar>>,
         <<OwnerVar, PausedVar>>,
         <<AllowancesVar, BalancesVar, UserCountVar>>,
         <<AccountingVar, SharesVar, UserCountVar>>,
         <<BalancesVar, TotalSupplyVar, TotalDepositedVar, OwnerVar, PausedVar>>}

BalanceOf(who) == Index(Ident(<<"b", "a", "l", "a", "n", "c", "e", "s">>), who)
ToAndAmount == <<Param(<<"t", "o">>, <<"a", "d", "d", "r", "e", "s", "s">>), Param(<<"a", "m", "o", "u", "n", "t">>, <<"u", "i", "n", "t", "2", "5", "6">>)>>
NonZeroTo ==
    BinOp(<<"!", "=">>, Ident(<<"t", "o">>), Call(Ident(<<"a", "d", "d", "r", "e", "s", "s">>), <<Num(<<"0">>)>>))

\* the functions a sampled contract is put together from, declared at line l
SampleFunctions(l) ==
    {FunctionNode(<<"t", "r", "a", "n", "s", "f", "e", "r">>, "public", "null", FALSE, ToAndAmount, <<>>,
        <<ExprStmt(Call(Ident(<<"r", "e", "q", "u", "i", "r", "e">>), <<NonZeroTo>>), l + 1),
          ExprStmt(BinOp(<<"-", "=">>, BalanceOf(MsgSender), Ident(<<"a", "m", "o", "u", "n", "t">>)), l + 2),
          ExprStmt(BinOp(<<"+", "=">>, BalanceOf(Ident(<<"t", "o">>)), Ident(<<"a", "m", "o", "u", "n", "t">>)), l + 3)>>, l),
     FunctionNode(<<"t", "r", "a", "n", "s", "f", "e", "r">>, "external", "null", FALSE, ToAndAmount, <<<<"w", "h", "e", "n", "N", "o", "t", "P", "a", "u", "s", "e", "d">>>>,
        <<ExprStmt(BinOp(<<"-", "=">>, BalanceOf(MsgSender), Ident(<<"a", "m", "o", "u", "n", "t">>)), l + 1),
          ExprStmt(BinOp(<<"+", "=">>, BalanceOf(Ident(<<"t", "o">>)), Ident(<<"a", "m", "o", "u", "n", "t">>)), l + 2)>>, l),
     FunctionNode(<<"d", "e", "p", "o", "s", "i", "t">>, "public", "payable", FALSE, <<>>, <<>>,
        <<ExprStmt(BinOp(<<"+", "=">>, BalanceOf(MsgSender), Member(Ident(<<"m", "s", "g">>), <<"v", "a", "l", "u", "e">>)), l + 1),
          ExprStmt(BinOp(<<"+", "=">>, Ident(<<"t", "o", "t", "a", "l", "D", "e", "p", "o", "s", "i", "t", "e", "d">>),
                         Member(Ident(<<"m", "s", "g">>), <<"v", "a", "l", "u", "e">>)), l + 2)>>, l),
     FunctionNode(<<"d", "e", "p", "o", "s", "i", "t">>, "public", "null", FALSE, <<Param(<<"a", "m", "o", "u", "n", "t">>, <<"u", "i", "n", "t", "2", "5", "6">>)>>, <<>>,
        <<ExprStmt(BinOp(<<"+", "=">>, BalanceOf(MsgSender), Ident(<<"a", "m", "o", "u", "n", "t">>)), l + 1)>>, l),
     FunctionNode(<<"w", "i", "t", "h", "d", "r", "a", "w">>, "public", "null", FALSE, <<Param(<<"a", "m", "o", "u", "n", "t">>, <<"u", "i", "n", "t", "2", "5", "6">>)>>, <<>>,
        <<ExprStmt(Call(Ident(<<"r", "e", "q", "u", "i", "r", "e">>),
                        <<BinOp(<<">", "=">>, BalanceOf(MsgSender), Ident(<<"a", "m", "o", "u", "n", "t">>))>>), l + 1),
          VarDecl(ValueCall, l + 2),
          ExprStmt(BinOp(<<"-", "=">>, BalanceOf(MsgSender), Ident(<<"a", "m", "o", "u", "n", "t">>)), l + 3)>>, l),
     FunctionNode(<<"a", "p", "p", "r", "o", "v", "e">>, "public", "null", FALSE, ToAndAmount, <<>>,
        <<ExprStmt(BinOp(<<"=">>, Index(Ident(<<"a", "l", "l", "o", "w", "a", "n", "c", "e", "s">>), Ident(<<"t", "o">>)),
                         Ident(<<"a", "m", "o", "u", "n", "t">>)), l + 1)>>, l),
     FunctionNode(<<"t", "r", "a", "n", "s", "f", "e", "r", "F", "r", "o", "m">>, "public", "null", FALSE, ToAndAmount, <<>>,
        <<ExprStmt(BinOp(<<"+", "=">>, BalanceOf(Ident(<<"t", "o">>)), Ident(<<"a", "m", "o", "u", "n", "t">>)), l + 1)>>, l),
     FunctionNode(<<"m", "i", "n", "t">>, "public", "null", FALSE, ToAndAmount,
        <<<<"o", "n", "l", "y", "O", "w", "n", "e", "r">>, <<"w", "h", "e", "n", "N", "o", "t", "P", "a", "u", "s", "e", "d">>>>,
        <<ExprStmt(BinOp(<<"+", "=">>, Ident(<<"t", "o", "t", "a", "l", "S", "u", "p", "p", "l", "y">>), Ident(<<"a", "m", "o", "u", "n", "t">>)), l + 1)>>, l),
     FunctionNode(<<"o", "w", "n", "e", "r", "O", "f">>, "public", "view", FALSE, <<Param(<<"t", "o", "k", "e", "n", "I", "d">>, <<"u", "i", "n", "t", "2", "5", "6">>)>>, <<>>,
        <<Return(Ident(<<"o", "w", "n", "e", "r">>), l + 1)>>, l),
     FunctionNode(<<"_", "c", "r", "e", "d", "i", "t">>, "internal", "null", FALSE, ToAndAmount, <<>>,
        <<ExprStmt(BinOp(<<"+", "=">>, BalanceOf(Ident(<<"t", "o">>)), Ident(<<"a", "m", "o", "u", "n", "t">>)), l + 1)>>, l)}

\* every list of n sampled functions, the k-th declared at line 10 * k
RECURSIVE FunctionLists(_)
FunctionLists(n) ==
    IF n = 0 THEN {<<>>}
    ELSE {Append(fs, f) : fs \in FunctionLists(n - 1), f \in SampleFunctions(10 * n)}

InvInputs ==
    {ContractNode(<<"B", "a", "n", "k">>, stateVarNodes \o fnNodes) :
        stateVarNodes \in SampleStateVars,
        fnNodes \in UNION {FunctionLists(n) : n \in 0..MaxFns}}

(***************************************************************************)
(* SpecScore: calculateSecurityScore called on an arbitrary list of        *)
(* findings (any severities, an unknown one included).                     *)
(***************************************************************************)
SampleFindings ==
    {[severity |-> CRITICAL, title |-> "a"], [severity |-> CRITICAL, title |-> "b"],
     [severity |-> HIGH, title |-> "a"], [severity |-> MEDIUM, title |-> "b"],
     [severity |-> LOW, title |-> "a"], [severity |-> "INFO", title |-> "b"]}

InitScore ==
    /\ done = {"vulns"}
    /\ ast = NoNode
    /\ contract = EmptyContract
    /\ invariants = <<>>
    /\ vulns \in SeqsUpTo(SampleFindings, MaxVulns)
    /\ scoreData = NoScore
    /\ gasIssues = <<>>
    /\ now = 0
    /\ runAt = 0
    /\ written = <<>>
    /\ previous = NoRun
    /\ NoCommand
    /\ attackCount = 0
    /\ hooks = <<>>
    /\ reinvoked = <<>>

NextScore == CalculateSecurityScore

SpecScore == InitScore /\ [][NextScore]_vars

(***************************************************************************)
(* SpecVuln: model extraction followed by vulnerability detection, for     *)
(* every contract of VulnInputs.                                           *)
(***************************************************************************)
InitVuln ==
    /\ done = {}
    /\ NothingRan
    /\ ast \in VulnInputs

NextVuln == ExtractContract \/ DetectVulnerabilities

SpecVuln == InitVuln /\ [][NextVuln]_vars

(***************************************************************************)
(* SpecInv: model extraction followed by invariant discovery, for every    *)
(* contract of InvInputs.                                                  *)
(***************************************************************************)
InitInv ==
    /\ done = {}
    /\ NothingRan
    /\ ast \in InvInputs

NextInv == ExtractContract \/ DiscoverInvariants

SpecInv == InitInv /\ [][NextInv]_vars

(***************************************************************************)
(* SpecRun: the command run again and again on one unchanged source file   *)
(* while the clock advances.                                               *)
(***************************************************************************)
EventNode(name, params) ==
    [type |-> "EventDefinition", name |-> name,
     parameters |-> [i \in 1..Len(params) |->
                        [name |-> params[i].name, typeName |-> params[i].typeName,
                         isIndexed |-> FALSE]]]

TransferEvent ==
    EventNode(<<"T", "r", "a", "n", "s", "f", "e", "r">>, <<Param(<<"f", "r", "o", "m">>, <<"a", "d", "d", "r", "e", "s", "s">>), Param(<<"t", "o">>, <<"a", "d", "d", "r", "e", "s", "s">>),
                             Param(<<"v", "a", "l", "u", "e">>, <<"u", "i", "n", "t", "2", "5", "6">>)>>)

\* the grammar parser gives a constructor no name: null, the empty string here
\* constructor(string name, uint256 supply) { owner = msg.sender; totalSupply = supply; }
ConstructorNode ==
    FunctionNode(<<>>, "public", "null", TRUE,
         <<Param(<<"n", "a", "m", "e">>, <<"s", "t", "r", "i", "n", "g">>), Param(<<"s", "u", "p", "p", "l", "y">>, <<"u", "i", "n", "t", "2", "5", "6">>)>>, <<>>,
         <<ExprStmt(BinOp(<<"=">>, Ident(<<"o", "w", "n", "e", "r">>), MsgSender), 6),
           ExprStmt(BinOp(<<"=">>, Ident(<<"t", "o", "t", "a", "l", "S", "u", "p", "p", "l", "y">>), Ident(<<"s", "u", "p", "p", "l", "y">>)), 7)>>, 5)

\* examples/Vault.sol under the given contract name, its members on the lines
\* of the file; of a modifier definition only the name is read
VaultNode(name) ==
    LET Modifier(n) == [type |-> "ModifierDefinition", name |-> n]
        Event(n) ==
            [type |-> "EventDefinition", name |-> n,
             parameters |-> <<[name |-> <<"u", "s", "e", "r">>, typeName |-> Elementary(<<"a", "d", "d", "r", "e", "s", "s">>),
                               isIndexed |-> TRUE],
                              [name |-> <<"a", "m", "o", "u", "n", "t">>, typeName |-> Elementary(<<"u", "i", "n", "t", "2", "5", "6">>),
                               isIndexed |-> FALSE]>>]
        Emit(n, value, l) ==
            [type |-> "EmitStatement", eventCall |-> Call(Ident(n), <<MsgSender, value>>),
             loc |-> Loc(l)]
        Require(cond, text, l) == ExprStmt(Call(Ident(<<"r", "e", "q", "u", "i", "r", "e">>), <<cond, Str(text)>>), l)
        MsgValue == Member(Ident(<<"m", "s", "g">>), <<"v", "a", "l", "u", "e">>)
    IN  ContractNode(name,
          <<StateVarNode(<<"b", "a", "l", "a", "n", "c", "e", "s">>, MappingType(<<"a", "d", "d", "r", "e", "s", "s">>, <<"u", "i", "n", "t", "2", "5", "6">>)),
            StateVarNode(<<"t", "o", "t", "a", "l", "D", "e", "p", "o", "s", "i", "t", "e", "d">>, Elementary(<<"u", "i", "n", "t", "2", "5", "6">>)),
            StateVarNode(<<"o", "w", "n", "e", "r">>, Elementary(<<"a", "d", "d", "r", "e", "s", "s">>)),
            StateVarNode(<<"p", "a", "u", "s", "e", "d">>, Elementary(<<"b", "o", "o", "l">>)),
            Event(<<"D", "e", "p", "o", "s", "i", "t">>),
            Event(<<"W", "i", "t", "h", "d", "r", "a", "w">>),
            Modifier(<<"o", "n", "l", "y", "O", "w", "n", "e", "r">>),
            Modifier(<<"w", "h", "e", "n", "N", "o", "t", "P", "a", "u", "s", "e", "d">>),
            FunctionNode(<<>>, "default", "null", TRUE, <<>>, <<>>,
                <<ExprStmt(BinOp(<<"=">>, Ident(<<"o", "w", "n", "e", "r">>), MsgSender), 24)>>, 23),
            FunctionNode(<<"d", "e", "p", "o", "s", "i", "t">>, "public", "payable", FALSE, <<>>, <<<<"w", "h", "e", "n", "N", "o", "t", "P", "a", "u", "s", "e", "d">>>>,
                <<Require(BinOp(<<">">>, MsgValue, Num(<<"0">>)), <<"M", "u", "s", "t", " ", "d", "e", "p", "o", "s", "i", "t", " ", "s", "o", "m", "e", "t", "h", "i", "n", "g">>, 28),
                  ExprStmt(BinOp(<<"+", "=">>, BalanceOfSender, MsgValue), 29),
                  ExprStmt(BinOp(<<"+", "=">>, Ident(<<"t", "o", "t", "a", "l", "D", "e", "p", "o", "s", "i", "t", "e", "d">>), MsgValue), 30),
                  Emit(<<"D", "e", "p", "o", "s", "i", "t">>, MsgValue, 31)>>, 27),
            FunctionNode(<<"w", "i", "t", "h", "d", "r", "a", "w">>, "public", "null", FALSE,
                <<Param(<<"a", "m", "o", "u", "n", "t">>, <<"u", "i", "n", "t", "2", "5", "6">>)>>, <<<<"w", "h", "e", "n", "N", "o", "t", "P", "a", "u", "s", "e", "d">>>>,
                <<Require(BinOp(<<">", "=">>, BalanceOfSender, Ident(<<"a", "m", "o", "u", "n", "t">>)),
                          <<"I", "n", "s", "u", "f", "f", "i", "c", "i", "e", "n", "t", " ", "b", "a", "l", "a", "n", "c", "e">>, 36),
                  VarDecl(ValueCall, 38),
                  Require(Ident(<<"s", "u", "c", "c", "e", "s", "s">>), <<"T", "r", "a", "n", "s", "f", "e", "r", " ", "f", "a", "i", "l", "e", "d">>, 39),
                  ExprStmt(BinOp(<<"-", "=">>, BalanceOfSender, Ident(<<"a", "m", "o", "u", "n", "t">>)), 41),
                  ExprStmt(BinOp(<<"-", "=">>, Ident(<<"t", "o", "t", "a", "l", "D", "e", "p", "o", "s", "i", "t", "e", "d">>), Ident(<<"a", "m", "o", "u", "n", "t">>)), 42),
                  Emit(<<"W", "i", "t", "h", "d", "r", "a", "w">>, Ident(<<"a", "m", "o", "u", "n", "t">>), 44)>>, 35),
            FunctionNode(<<"p", "a", "u", "s", "e">>, "public", "null", FALSE, <<>>, <<<<"o", "n", "l", "y", "O", "w", "n", "e", "r">>>>,
                <<ExprStmt(BinOp(<<"=">>, Ident(<<"p", "a", "u", "s", "e", "d">>),
                                 [type |-> "BooleanLiteral", value |-> TRUE]), 48)>>, 47),
            FunctionNode(<<"u", "n", "p", "a", "u", "s", "e">>, "public", "null", FALSE, <<>>, <<<<"o", "n", "l", "y", "O", "w", "n", "e", "r">>>>,
                <<ExprStmt(BinOp(<<"=">>, Ident(<<"p", "a", "u", "s", "e", "d">>),
                                 [type |-> "BooleanLiteral", value |-> FALSE]), 52)>>, 51)>>)

\* a contract that declares nothing, or nothing but a constructor
\* constructor(uint256 amount) payable { .. } with a body of up to one
\* statement, amount -= 1; among them
ConstructorOnlyInputs ==
    {ContractNode(<<"E", "m", "p", "t", "y">>, <<>>)}
    \cup {ContractNode(<<"E", "m", "p", "t", "y">>,
              <<FunctionNode(<<>>, "default", "payable", TRUE,
                             <<Param(<<"a", "m", "o", "u", "n", "t">>, <<"u", "i", "n", "t", "2", "5", "6">>)>>, <<>>, body, 5)>>) :
             body \in BodiesOfLen(0, 5, FALSE, FALSE) \cup BodiesOfLen(1, 5, FALSE, FALSE)
                         \cup {<<ExprStmt(BinOp(<<"-", "=">>, Ident(<<"a", "m", "o", "u", "n", "t">>), Num(<<"1">>)), 6)>>}}

\* contracts for test synthesis: balances next to a total supply, a total
\* deposited or both, the function transfer(address to, uint256 amount) and
\* one more function declared at line 20: tracked or not by a ghost variable,
\* payable or not, with or without a parameter the update rules look for,
\* callable from outside or not
GeneratorInputs ==
    LET BalancesVar == StateVarNode(<<"b", "a", "l", "a", "n", "c", "e", "s">>, MappingType(<<"a", "d", "d", "r", "e", "s", "s">>, <<"u", "i", "n", "t", "2", "5", "6">>))
        TotalSupplyVar == StateVarNode(<<"t", "o", "t", "a", "l", "S", "u", "p", "p", "l", "y">>, Elementary(<<"u", "i", "n", "t", "2", "5", "6">>))
        TotalDepositedVar == StateVarNode(<<"t", "o", "t", "a", "l", "D", "e", "p", "o", "s", "i", "t", "e", "d">>, Elementary(<<"u", "i", "n", "t", "2", "5", "6">>))
        Uint(n) == <<Param(n, <<"u", "i", "n", "t", "2", "5", "6">>)>>
        Fn(name, visibility, mutability, params, body) ==
            FunctionNode(name, visibility, mutability, FALSE, params, <<>>, body, 20)
        Debit == ExprStmt(BinOp(<<"-", "=">>, BalanceOf(MsgSender), Ident(<<"a", "m", "o", "u", "n", "t">>)), 23)
        Transfer == Fn(<<"t", "r", "a", "n", "s", "f", "e", "r">>, "public", "null", ToAndAmount, <<>>)
        Others ==
            {Fn(<<"m", "i", "n", "t">>, "public", "null", ToAndAmount, <<>>),
             Fn(<<"m", "i", "n", "t">>, "public", "payable", ToAndAmount, <<>>),
             Fn(<<"b", "u", "r", "n">>, "public", "null", Uint(<<"a", "m", "o", "u", "n", "t">>), <<>>),
             Fn(<<"w", "i", "t", "h", "d", "r", "a", "w">>, "public", "null", Uint(<<"a", "m", "o", "u", "n", "t">>), <<>>),
             Fn(<<"w", "i", "t", "h", "d", "r", "a", "w">>, "public", "payable", Uint(<<"a", "m", "o", "u", "n", "t">>), <<>>),
             Fn(<<"w", "i", "t", "h", "d", "r", "a", "w">>, "public", "null", Uint(<<"s", "h", "a", "r", "e", "s">>), <<>>),
             Fn(<<"w", "i", "t", "h", "d", "r", "a", "w">>, "public", "null", Uint(<<"a", "m", "o", "u", "n", "t">>),
                <<VarDecl(ValueCall, 21), VarDecl(ValueCall, 22), Debit>>),
             Fn(<<"d", "e", "p", "o", "s", "i", "t">>, "public", "payable", <<>>, <<>>),
             Fn(<<"d", "e", "p", "o", "s", "i", "t">>, "public", "null", Uint(<<"a", "m", "o", "u", "n", "t">>), <<>>),
             Fn(<<"s", "t", "a", "k", "e">>, "external", "payable", <<>>, <<>>),
             Fn(<<"s", "t", "a", "k", "e">>, "external", "null", Uint(<<"v", "a", "l", "u", "e">>), <<>>),
             Fn(<<"u", "n", "s", "t", "a", "k", "e">>, "external", "null", Uint(<<"_", "a", "m", "o", "u", "n", "t">>), <<>>),
             Fn(<<"t", "r", "a", "n", "s", "f", "e", "r", "F", "r", "o", "m">>, "public", "null",
                <<Param(<<"t", "o">>, <<"a", "d", "d", "r", "e", "s", "s">>), Param(<<"t", "o", "k", "e", "n", "s">>, <<"u", "i", "n", "t", "2", "5", "6">>)>>, <<>>),
             Fn(<<"t", "r", "a", "n", "s", "f", "e", "r", "F", "r", "o", "m">>, "public", "null", ToAndAmount, <<>>),
             Fn(<<"_", "m", "i", "n", "t">>, "internal", "null", ToAndAmount, <<>>),
             Fn(<<"b", "u", "r", "n">>, "private", "null", Uint(<<"a", "m", "o", "u", "n", "t">>), <<>>),
             Fn(<<"f", "a", "l", "l", "b", "a", "c", "k">>, "public", "null", <<>>, <<>>),
             [Fn(<<>>, "external", "payable", <<>>, <<>>) EXCEPT !.isReceiveEther = TRUE],
             Fn(<<"m", "i", "n", "t", "_", "r", "e", "e", "n", "t", "r", "a", "n", "c", "y">>, "public", "null", ToAndAmount, <<>>)}
    IN  {ContractNode(<<"B", "a", "n", "k">>, stateVarNodes \o <<Transfer, other>>) :
            stateVarNodes \in {<<BalancesVar, TotalSupplyVar>>,
                               <<BalancesVar, TotalDepositedVar>>,
                               <<BalancesVar, TotalSupplyVar, TotalDepositedVar>>},
            other \in Others}

\* a contract with or without a constructor and an event, any sampled state
\* variables and up to one sampled function; the Vault example under three
\* names; the contracts of a constructor only; and the contracts for test
\* synthesis
RunInputs ==
    {ContractNode(<<"B", "a", "n", "k">>, stateVarNodes \o ctor \o fnNodes \o events) :
        stateVarNodes \in SampleStateVars,
        ctor \in {<<>>, <<ConstructorNode>>},
        fnNodes \in FunctionLists(0) \cup FunctionLists(1),
        events \in {<<>>, <<TransferEvent>>}}
    \cup {VaultNode(<<"V", "a", "u", "l", "t">>), VaultNode(<<"S", "a", "f", "e", "$", "V", "a", "u", "l", "t">>), VaultNode(<<"H", "a", "n", "d", "l", "e", "r">>)}
    \cup ConstructorOnlyInputs
    \cup GeneratorInputs

InitRun ==
    /\ done = {}
    /\ NothingRan
    /\ ast \in RunInputs

NextRun == Run \/ Tick

SpecRun == InitRun /\ [][NextRun]_vars

(***************************************************************************)
(* SpecCli: one command on a file that is missing, that the grammar parser *)
(* rejects, or that holds up to two definitions.                           *)
(***************************************************************************)
\* what a source unit is put together from: a pragma, an interface, a
\* library, and contracts with and without findings
CliInputs ==
    LET Subtract ==
            FunctionNode(<<"s", "u", "b">>, "internal", "pure", FALSE,
                <<Param(<<"a">>, <<"u", "i", "n", "t", "2", "5", "6">>), Param(<<"a", "m", "o", "u", "n", "t">>, <<"u", "i", "n", "t", "2", "5", "6">>)>>, <<>>,
                <<ExprStmt(BinOp(<<"-", "=">>, Ident(<<"a">>), Ident(<<"a", "m", "o", "u", "n", "t">>)), 4)>>, 3)
        Mint ==
            FunctionNode(<<"m", "i", "n", "t">>, "public", "null", FALSE, ToAndAmount, <<>>,
                <<ExprStmt(BinOp(<<"+", "=">>, BalanceOf(Ident(<<"t", "o">>)), Ident(<<"a", "m", "o", "u", "n", "t">>)), 4)>>, 3)
        units ==
            {[type |-> "PragmaDirective"],
             [ContractNode(<<"I", "V", "a", "u", "l", "t">>, <<>>) EXCEPT !.kind = "interface"],
             [ContractNode(<<"S", "a", "f", "e", "M", "a", "t", "h">>, <<Subtract>>) EXCEPT !.kind = "library"],
             ContractNode(<<"E", "m", "p", "t", "y">>, <<>>),
             ContractNode(<<"T", "o", "k", "e", "n">>, <<Mint>>),
             ContractNode(<<"L", "e", "d", "g", "e", "r">>,
                 <<StateVarNode(<<"o", "w", "n", "e", "r">>, Elementary(<<"a", "d", "d", "r", "e", "s", "s">>)), ConstructorNode>>),
             VaultNode(<<"V", "a", "u", "l", "t">>)}
    IN  {[exists |-> FALSE, parses |-> FALSE, children |-> <<>>],
         [exists |-> TRUE, parses |-> FALSE, children |-> <<>>]}
        \cup {[exists |-> TRUE, parses |-> TRUE, children |-> children] :
                 children \in SeqsUpTo(units, 2)}

InitCli ==
    /\ done = {}
    /\ ast = NoNode
    /\ contract = EmptyContract
    /\ invariants = <<>>
    /\ vulns = <<>>
    /\ scoreData = NoScore
    /\ gasIssues = <<>>
    /\ now = 0
    /\ runAt = 0
    /\ written = <<>>
    /\ previous = NoRun
    /\ source \in CliInputs
    /\ mode \in {"analyze", "generate", "full"}
    /\ format \in {"terminal", "md"}
    /\ outcome = "pending"
    /\ analyzed = <<>>
    /\ generatedFiles = <<>>
    /\ attackCount = 0
    /\ hooks = <<>>
    /\ reinvoked = <<>>

NextCli == RunCommand

SpecCli == InitCli /\ [][NextCli]_vars

(***************************************************************************)
(* SpecAttack: the command run on one source file, and value sent again    *)
(* and again to the attacker contract it wrote.                            *)
(***************************************************************************)
NextAttack == Run \/ ReceiveValue \/ CallEnds

SpecAttack == InitRun /\ [][NextAttack]_vars

(***************************************************************************)
(* Claims.                                                                 *)
(***************************************************************************)
RECURSIVE SumPts(_)
SumPts(deductions) ==
    IF deductions = <<>> THEN 0
    ELSE Head(deductions).pts + SumPts(Tail(deductions))

\* C1: for every vulnerability list the returned score is an integer in 0..100
\* and equals 100 minus the sum of the pts recorded in the returned deductions,
\* clamped to 0..100.
C1_ScoreIsClampedSum ==
    "score" \in done =>
        LET raw == 100 - SumPts(scoreData.deductions)
        IN  /\ scoreData.score \in 0..100
            /\ scoreData.score = (IF raw < 0 THEN 0 ELSE IF raw > 100 THEN 100 ELSE raw)

\* C1 witness: a scored list whose deductions exceed 100 (the clamp acts) and
\* that holds a finding of unknown severity.
C1_Witness ==
    /\ "score" \in done
    /\ SumPts(scoreData.deductions) > 100
    /\ scoreData.score = 0
    /\ \E i \in 1..Len(vulns) : vulns[i].severity = "INFO"

\* C2: one deduction entry per supplied vulnerability, entry i describing
\* vulnerability i (input order, no re-sorting), with 25 points for CRITICAL,
\* 15 for HIGH, 8 for MEDIUM and 3 for LOW.
C2_DeductionsFollowInput ==
    "score" \in done =>
        /\ Len(scoreData.deductions) = Len(vulns)
        /\ \A i \in 1..Len(vulns) :
              LET d == scoreData.deductions[i]
                  v == vulns[i]
              IN  /\ d.title = v.title
                  /\ d.severity = v.severity
                  /\ (v.severity = "CRITICAL" => d.pts = 25)
                  /\ (v.severity = "HIGH" => d.pts = 15)
                  /\ (v.severity = "MEDIUM" => d.pts = 8)
                  /\ (v.severity = "LOW" => d.pts = 3)

\* C2 witness: a scored list of all four severities that is not sorted by
\* severity (LOW first, CRITICAL later).
C2_Witness ==
    /\ "score" \in done
    /\ Len(vulns) >= 4
    /\ vulns[1].severity = "LOW"
    /\ vulns[2].severity = "CRITICAL"
    /\ vulns[3].severity = "MEDIUM"
    /\ vulns[4].severity = "HIGH"
    /\ scoreData.deductions[1].pts = 3

\* C3: the grade depends on the final clamped score only: A+ from 95, A on
\* 90..94, B on 80..89, C on 70..79, D on 60..69, F below 60.
C3_GradeByThresholds ==
    "score" \in done =>
        LET s == scoreData.score
            g == scoreData.grade
        IN  /\ (g = "A+") <=> (s >= 95)
            /\ (g = "A") <=> (90 <= s /\ s < 95)
            /\ (g = "B") <=> (80 <= s /\ s < 90)
            /\ (g = "C") <=> (70 <= s /\ s < 80)
            /\ (g = "D") <=> (60 <= s /\ s < 70)
            /\ (g = "F") <=> (s < 60)

\* C3 witness: a score exactly on a threshold (70, graded C) is produced.
C3_Witness ==
    /\ "score" \in done
    /\ scoreData.score = 70
    /\ scoreData.grade = "C"

(***************************************************************************)
(* The syntax tree read directly, for the claims that speak of the source  *)
(* of a function rather than of its model.                                 *)
(***************************************************************************)
ChildFields ==
    {"expression", "left", "right", "base", "index", "subExpression", "initialValue",
     "condition", "trueBody", "falseBody", "body", "block"}
ChildListFields == {"arguments", "statements"}

\* every node below n, paired with the line of its innermost statement
RECURSIVE NodesIn(_, _)
NodesIn(n, l) ==
    LET here == IF Has(n, "loc") THEN n.loc.start.line ELSE l
    IN  {<<n, here>>}
        \cup UNION {NodesIn(n[f], here) : f \in DOMAIN n \cap ChildFields}
        \cup UNION {UNION {NodesIn(n[f][i], here) : i \in 1..Len(n[f])} :
                       f \in DOMAIN n \cap ChildListFields}

FunctionNodes == {i \in 1..Len(ast.subNodes) : ast.subNodes[i].type = "FunctionDefinition"}

\* a call of a member named call, transfer, send, delegatecall or staticcall,
\* value-attached or not
IsSelectorCall(n, members) ==
    /\ n.type = "FunctionCall"
    /\ LET callee == IF n.expression.type = "NameValueExpression"
                     THEN n.expression.expression ELSE n.expression
       IN  callee.type = "MemberAccess" /\ callee.memberName \in members

\* the lines of the calls of the given members anywhere in a function
CallLines(fnNode, members) ==
    {p[2] : p \in {q \in NodesIn(fnNode.body, 0) : IsSelectorCall(q[1], members)}}

RECURSIVE RootName(_)
RootName(e) ==
    IF e.type = "Identifier" THEN e.name
    ELSE IF e.type = "IndexAccess" THEN RootName(e.base)
    ELSE IF e.type = "MemberAccess" THEN RootName(e.expression)
    ELSE <<>>

\* the lines of the assignment statements (=, +=, -=, *=, /=) to contract state
StateAssignmentLines(fnNode) ==
    {p[2] : p \in {q \in NodesIn(fnNode.body, 0) :
        /\ q[1].type = "ExpressionStatement"
        /\ q[1].expression.type = "BinaryOperation"
        /\ q[1].expression.operator \in {<<"=">>, <<"+", "=">>, <<"-", "=">>, <<"*", "=">>, <<"/", "=">>}
        /\ RootName(q[1].expression.left) \in {<<"b", "a", "l", "a", "n", "c", "e", "s">>, <<"t", "o", "t", "a", "l">>}}}

FindingsWithId(id) == {i \in 1..Len(vulns) : vulns[i].id = id}

\* C4: a function with a call of a selector member at line L, in whatever
\* statement form, and a state-mutating assignment at a later line always has
\* a reentrancy finding.
C4_CallThenMutationIsReported ==
    "vulns" \in done =>
        \A i \in FunctionNodes :
            LET fnNode == ast.subNodes[i]
                calls == CallLines(fnNode,
                             {<<"c", "a", "l", "l">>, <<"t", "r", "a", "n", "s", "f", "e", "r">>, <<"s", "e", "n", "d">>, <<"d", "e", "l", "e", "g", "a", "t", "e", "c", "a", "l", "l">>, <<"s", "t", "a", "t", "i", "c", "c", "a", "l", "l">>})
            IN  (\E L \in calls : \E L2 \in StateAssignmentLines(fnNode) : L2 > L)
                    => FindingsWithId(<<"r", "e", "e", "n", "t", "r", "a", "n", "c", "y", "_">> \o fnNode.name) # {}

\* C5: a call site at line L has a reentrancy finding only when some state
\* change of the same function is at a line strictly greater than L; with
\* every state change at a line <= L it has none, and the lines a finding
\* cites are all greater than its call line.
C5_NoFindingInChecksEffectsInteractionsOrder ==
    "vulns" \in done =>
        /\ \A i \in 1..Len(contract.functions) :
              LET fn == contract.functions[i]
              IN  \A j \in 1..Len(fn.externalCalls) :
                      LET L == fn.externalCalls[j].loc.start.line
                      IN  (\A k \in 1..Len(fn.stateChanges) :
                                fn.stateChanges[k].loc.start.line <= L)
                          => ~\E v \in FindingsWithId(<<"r", "e", "e", "n", "t", "r", "a", "n", "c", "y", "_">> \o fn.name) :
                                 vulns[v].line = L
        /\ \A v \in 1..Len(vulns) :
              vulns[v].pattern = "Reentrancy (SWC-107)" =>
                  /\ \E i \in 1..Len(contract.functions) :
                        /\ contract.functions[i].name = vulns[v].function
                        /\ \E k \in 1..Len(contract.functions[i].stateChanges) :
                              contract.functions[i].stateChanges[k].loc.start.line
                                  > vulns[v].line
                  /\ \A n \in 2..Len(vulns[v].description.nums) :
                        vulns[v].description.nums[n] > vulns[v].line

\* C5 witness: a function that changes state and calls out on the same line
\* (no state change is on a later line) and gets no reentrancy finding.
C5_Witness ==
    /\ "vulns" \in done
    /\ Len(contract.functions) = 1
    /\ LET fn == contract.functions[1]
       IN  /\ Len(fn.stateChanges) >= 1
           /\ Len(fn.externalCalls) >= 1
           /\ \A k \in 1..Len(fn.stateChanges) :
                 fn.stateChanges[k].loc.start.line = fn.externalCalls[1].loc.start.line
    /\ \A v \in 1..Len(vulns) : vulns[v].pattern # "Reentrancy (SWC-107)"

\* C6: the list returned by detectVulnerabilities holds no two findings with
\* the same id.
C6_NoDuplicateFindingIds ==
    "vulns" \in done =>
        \A i, j \in 1..Len(vulns) : i # j => vulns[i].id # vulns[j].id

\* C8: a public or external non-constructor function whose lower-cased name
\* contains one of the ten sensitive substrings, with no owner-style modifier
\* and no require argument mentioning owner, admin or msg.sender, has a
\* CRITICAL missing-access-control finding.
C8_SensitiveUnguardedIsReported ==
    "vulns" \in done =>
        \A i \in 1..Len(contract.functions) :
            LET fn == contract.functions[i]
                sensitive ==
                    \E s \in {<<"m", "i", "n", "t">>, <<"b", "u", "r", "n">>, <<"p", "a", "u", "s", "e">>, <<"u", "n", "p", "a", "u", "s", "e">>, <<"w", "i", "t", "h", "d", "r", "a", "w">>, <<"s", "e", "t", "o", "w", "n", "e", "r">>,
                              <<"t", "r", "a", "n", "s", "f", "e", "r", "o", "w", "n", "e", "r", "s", "h", "i", "p">>, <<"u", "p", "g", "r", "a", "d", "e">>, <<"s", "e", "l", "f", "d", "e", "s", "t", "r", "u", "c", "t">>, <<"d", "e", "s", "t", "r", "o", "y">>} :
                        includes(toLowerCase(fn.name), s)
                guarded ==
                    \/ \E m \in 1..Len(fn.modifiers) : fn.modifiers[m] \in accessControlModifiers
                    \/ \E r \in 1..Len(fn.requires) : \E a \in 1..Len(fn.requires[r].args) :
                          \/ includes(fn.requires[r].args[a], <<"o", "w", "n", "e", "r">>)
                          \/ includes(fn.requires[r].args[a], <<"a", "d", "m", "i", "n">>)
                          \/ includes(fn.requires[r].args[a], <<"m", "s", "g", ".", "s", "e", "n", "d", "e", "r">>)
            IN  (/\ fn.visibility \in {"public", "external"}
                 /\ ~fn.isConstructor
                 /\ sensitive
                 /\ ~guarded)
                => \E v \in FindingsWithId(<<"m", "i", "s", "s", "i", "n", "g", "_", "a", "c", "c", "e", "s", "s", "_">> \o fn.name) :
                       vulns[v].severity = "CRITICAL"

\* the statements of a function that are a bare msg.sender.send(..);
BareSendStatements(fnNode) ==
    {p \in NodesIn(fnNode.body, 0) :
        /\ p[1].type = "ExpressionStatement"
        /\ IsSelectorCall(p[1].expression, {<<"s", "e", "n", "d">>})}

\* C9: unchecked-send findings come from the sends whose return value the
\* enclosing statement does not capture: one per bare expression-statement
\* send, none for a send that initializes a declared variable.
C9_OnlyUncapturedSendIsReported ==
    "vulns" \in done =>
        \A i \in FunctionNodes :
            LET fnNode == ast.subNodes[i]
            IN  \A l \in 0..(10 + MaxStmts + 1) :
                    Cardinality({v \in FindingsWithId(<<"u", "n", "c", "h", "e", "c", "k", "e", "d", "_", "s", "e", "n", "d", "_">> \o fnNode.name) :
                                    vulns[v].line = l})
                    = Cardinality({p \in BareSendStatements(fnNode) : p[2] = l})

\* the rule outputs concatenated in the order the rules run
RuleOutputs ==
    LET c == contract
        upToArithmetic ==
            detectERC20Invariants(c) \o detectERC721Invariants(c)
                \o detectSupplyInvariants(c) \o detectBalanceInvariants(c)
                \o detectAccessControlInvariants(c) \o detectPausableInvariants(c)
                \o detectArithmeticInvariants(c)
    IN  upToArithmetic \o detectMappingConsistency(c, upToArithmetic)

\* the positions of a list that hold the first entry of their id
FirstOccurrences(invs) ==
    {i \in 1..Len(invs) : \A j \in 1..(i - 1) : invs[j].id # invs[i].id}

\* C7: the discovered list is the concatenation of the eight rule outputs
\* (ERC20, ERC721, supply, balance, access control, pausable, arithmetic,
\* mapping consistency) with the first entry of every id kept and every later
\* entry of that id dropped, the kept entries in their original order
C7_DiscoverIsStableFirstOccurrenceDedup ==
    "invariants" \in done =>
        LET all == RuleOutputs
            keep == FirstOccurrences(all)
        IN  /\ Len(invariants) = Cardinality(keep)
            /\ \A k \in 1..Len(invariants) :
                   \E i \in keep :
                       /\ invariants[k] = all[i]
                       /\ Cardinality({j \in keep : j < i}) = k - 1

\* two overloads pushed the same id and something was pushed between
\* and after them
C7_Witness ==
    /\ "invariants" \in done
    /\ \E i, j, k \in 1..Len(RuleOutputs) :
           /\ i < j /\ j < k
           /\ RuleOutputs[i].id = RuleOutputs[k].id
           /\ RuleOutputs[i].id # RuleOutputs[j].id
    /\ Len(invariants) < Len(RuleOutputs)
    /\ Len(invariants) >= 3

\* the findings and the score a run produced
FindingsOfPrevious ==
    <<previous.invariants, previous.vulns, previous.gasIssues, previous.scoreData>>
FindingsOfLatest == <<invariants, vulns, gasIssues, scoreData>>

\* the files of a run other than the markdown report, and the report
IsReport(file) == endsWith(file.path, <<".", "m", "d">>)
TestSources(files) == SelectSeq(files, LAMBDA f : ~IsReport(f))
Reports(files) == SelectSeq(files, IsReport)

\* the calendar date of a clock reading, two readings to the day
CalendarDate(t) ==
    <<"2", "0", "2", "4", "-", "0", "1", "-">>
        \o <<DigitChars[((1 + (t \div 2)) \div 10) + 1], DigitChars[((1 + (t \div 2)) % 10) + 1]>>

\* the row of the report's header table that carries the date
IsDateRow(line) == line.template = "| Date | ${date} |"

\* C10 as stated: two runs on the same input yield identical findings and
\* identical artifact contents, whenever each of the two runs happens
C10_RunsAreIdenticalWhenever ==
    previous.ran =>
        /\ FindingsOfPrevious = FindingsOfLatest
        /\ previous.written = written

\* C10: two runs on the same input yield identical findings and identical
\* test sources whenever they happen; their markdown reports are identical
\* line for line except for the date row, which carries the calendar date of
\* the run, so the reports are identical exactly when both runs happen on the
\* same date
C10_RunsAreIdenticalUpToReportDate ==
    previous.ran =>
        /\ FindingsOfPrevious = FindingsOfLatest
        /\ TestSources(previous.written) = TestSources(written)
        /\ Len(Reports(previous.written)) = 1
        /\ Len(Reports(written)) = 1
        /\ LET before == Reports(previous.written)[1]
               after == Reports(written)[1]
           IN  /\ before.path = after.path
               /\ Len(before.content) = Len(after.content)
               /\ \A k \in 1..Len(after.content) :
                      IF IsDateRow(after.content[k])
                      THEN /\ after.content[k].strs = <<CalendarDate(runAt)>>
                           /\ before.content[k].strs = <<CalendarDate(previous.runAt)>>
                           /\ IsDateRow(before.content[k])
                      ELSE before.content[k] = after.content[k]
               /\ \E k \in 1..Len(after.content) : IsDateRow(after.content[k])
               /\ (before = after) <=> (CalendarDate(previous.runAt) = CalendarDate(runAt))

\* two runs at different times of one day wrote both test sources and the
\* same report
C10_Witness ==
    /\ previous.ran
    /\ previous.runAt # runAt
    /\ CalendarDate(previous.runAt) = CalendarDate(runAt)
    /\ Len(TestSources(written)) = 2
    /\ previous.written = written

(***************************************************************************)
(* The concrete scenarios and the rewriting of assertion templates.        *)
(***************************************************************************)
ReentrancyFindings == {v \in 1..Len(vulns) : vulns[v].pattern = "Reentrancy (SWC-107)"}
InvariantsWithId(id) == {i \in 1..Len(invariants) : invariants[i].id = id}

\* C11: for the Vault contract (balances mapping, totalDeposited scalar,
\* payable deposit, withdraw making a value call before it decrements balances
\* and totalDeposited) there is exactly one reentrancy finding, it is CRITICAL
\* and names withdraw, and there is exactly one vault_accounting and exactly
\* one vault_solvency invariant.
C11_VaultScenario ==
    ("report" \in done /\ ast \in {VaultNode(<<"V", "a", "u", "l", "t">>), VaultNode(<<"S", "a", "f", "e", "$", "V", "a", "u", "l", "t">>)}) =>
        /\ Cardinality(ReentrancyFindings) = 1
        /\ \A v \in ReentrancyFindings :
              /\ vulns[v].severity = "CRITICAL"
              /\ vulns[v].function = <<"w", "i", "t", "h", "d", "r", "a", "w">>
              /\ vulns[v].id = <<"r", "e", "e", "n", "t", "r", "a", "n", "c", "y", "_", "w", "i", "t", "h", "d", "r", "a", "w">>
        /\ Cardinality(InvariantsWithId(<<"v", "a", "u", "l", "t", "_", "a", "c", "c", "o", "u", "n", "t", "i", "n", "g">>)) = 1
        /\ Cardinality(InvariantsWithId(<<"v", "a", "u", "l", "t", "_", "s", "o", "l", "v", "e", "n", "c", "y">>)) = 1

\* the Vault example was analysed: its value call on line 38 is reported
\* against the decrements on lines 41 and 42
C11_Witness ==
    /\ "report" \in done
    /\ ast = VaultNode(<<"V", "a", "u", "l", "t">>)
    /\ \E v \in ReentrancyFindings :
          /\ vulns[v].line = 38
          /\ vulns[v].description.nums = <<38, 41, 42>>
    /\ InvariantsWithId(<<"v", "a", "u", "l", "t", "_", "s", "o", "l", "v", "e", "n", "c", "y">>) # {}

\* C13: for a contract with no state variables and no functions other than a
\* constructor there are no invariants and no vulnerabilities, the score is 100
\* with grade A+, and no test file is written.
C13_ConstructorOnlyContractIsClean ==
    (/\ "report" \in done
     /\ contract.stateVars = <<>>
     /\ \A i \in 1..Len(contract.functions) : contract.functions[i].isConstructor) =>
        /\ invariants = <<>>
        /\ vulns = <<>>
        /\ scoreData.score = 100
        /\ scoreData.grade = "A+"
        /\ TestSources(written) = <<>>
        /\ generateFoundryTests(contract, invariants, vulns) = <<>>

\* a reference to the contract through a name: name.member at the start of a
\* word, or address(name)
RefersThrough(code, name) ==
    \E j \in 1..Len(code) :
        \/ /\ j + Len(name) <= Len(code)
           /\ SubSeq(code, j, j + Len(name)) = name \o <<".">>
           /\ (j = 1 \/ code[j - 1] \notin WordChars)
        \/ /\ j + Len(name) + 8 <= Len(code)
           /\ SubSeq(code, j, j + Len(name) + 8) = <<"a", "d", "d", "r", "e", "s", "s", "(">> \o name \o <<")">>

\* the assertions written into the invariant test files of the run
AssertionsWritten ==
    UNION {{written[f].content[k].strs[1] :
               k \in {n \in 1..Len(written[f].content) :
                         written[f].content[n].template = "        ${code};"}} :
           f \in 1..Len(written)}

\* C14: whatever the contract name, an assertion written from a template that
\* refers to the contract by its name or its lower-cased name holds no
\* reference through that name any more: each is rewritten to target.member
\* or address(target).
C14_NoReferenceThroughContractName ==
    "report" \in done =>
        \A code \in AssertionsWritten :
            \A name \in {contract.name, toLowerCase(contract.name)} :
                ~RefersThrough(code, name)

\* the public functions mint(address,uint256) with no modifier and no require
\* argument mentioning owner, admin or msg.sender
UnguardedMints ==
    {i \in 1..Len(contract.functions) :
        LET fn == contract.functions[i]
        IN  /\ fn.name = <<"m", "i", "n", "t">>
            /\ fn.visibility = "public"
            /\ [p \in 1..Len(fn.params) |-> fn.params[p].type] = <<<<"a", "d", "d", "r", "e", "s", "s">>, <<"u", "i", "n", "t", "2", "5", "6">>>>
            /\ fn.modifiers = <<>>
            /\ \A r \in 1..Len(fn.requires) : \A a \in 1..Len(fn.requires[r].args) :
                  /\ ~includes(fn.requires[r].args[a], <<"o", "w", "n", "e", "r">>)
                  /\ ~includes(fn.requires[r].args[a], <<"a", "d", "m", "i", "n">>)
                  /\ ~includes(fn.requires[r].args[a], <<"m", "s", "g", ".", "s", "e", "n", "d", "e", "r">>)}

MissingAccessFindings(name) ==
    {v \in 1..Len(vulns) :
        /\ vulns[v].pattern = "Missing Access Control (SWC-105)"
        /\ vulns[v].function = name}

\* C12: for a contract exposing a public mint(address,uint256) with no
\* modifier and no require mentioning owner, admin or msg.sender there is
\* exactly one missing-access-control finding for mint, and it is CRITICAL.
C12_UnguardedMintScenario ==
    ("vulns" \in done /\ Cardinality(UnguardedMints) = 1
        /\ Cardinality({i \in 1..Len(contract.functions) :
                           contract.functions[i].name = <<"m", "i", "n", "t">>}) = 1) =>
        /\ Cardinality(MissingAccessFindings(<<"m", "i", "n", "t">>)) = 1
        /\ \A v \in MissingAccessFindings(<<"m", "i", "n", "t">>) :
              /\ vulns[v].severity = "CRITICAL"
              /\ vulns[v].id = <<"m", "i", "s", "s", "i", "n", "g", "_", "a", "c", "c", "e", "s", "s", "_", "m", "i", "n", "t">>

\* a public mint(address,uint256) whose only require is on the amount was
\* analysed and reported
C12_Witness ==
    /\ "vulns" \in done
    /\ Cardinality(UnguardedMints) = 1
    /\ \E i \in UnguardedMints : Len(contract.functions[i].requires) = 1
    /\ MissingAccessFindings(<<"m", "i", "n", "t">>) # {}

(***************************************************************************)
(* The command line: which files are written, and how the command ends.    *)
(***************************************************************************)
\* the contract definitions of the source file that are no interface and no
\* library, in file order
AnalyzableNodes ==
    SelectSeq(source.children,
        LAMBDA n : n.type = "ContractDefinition" /\ n.kind \notin {"interface", "library"})

PathsWritten == [f \in 1..Len(written) |-> written[f].path]

\* C15: the invariant test file is written if and only if the invariant list
\* is not empty and the vulnerability test file if and only if the
\* vulnerability list is not empty; the file list returned holds exactly the
\* test files written; and with --format md the report of every analyzed
\* contract is written, in every mode.
C15_FilesWrittenExactlyWhenFound ==
    outcome = "returned" =>
        /\ \A k \in 1..Len(AnalyzableNodes) :
              LET c == extractContract(AnalyzableNodes[k])
                  hasFile(suffix) == \E f \in 1..Len(written) : written[f].path = c.name \o suffix
              IN  /\ mode \in {"generate", "full"} =>
                        /\ hasFile(<<".", "i", "n", "v", "a", "r", "i", "a", "n", "t", ".", "t", ".", "s", "o", "l">>) <=> (discoverInvariants(c) # <<>>)
                        /\ hasFile(<<".", "v", "u", "l", "n", ".", "t", ".", "s", "o", "l">>) <=> (detectVulnerabilities(c) # <<>>)
                  /\ mode = "analyze" =>
                        /\ ~hasFile(<<".", "i", "n", "v", "a", "r", "i", "a", "n", "t", ".", "t", ".", "s", "o", "l">>)
                        /\ ~hasFile(<<".", "v", "u", "l", "n", ".", "t", ".", "s", "o", "l">>)
                  /\ hasFile(<<".", "r", "e", "p", "o", "r", "t", ".", "m", "d">>) <=> (format = "md")
        /\ generatedFiles = SelectSeq(PathsWritten, LAMBDA p : ~endsWith(p, <<".", "r", "e", "p", "o", "r", "t", ".", "m", "d">>))
        /\ \A f \in 1..Len(written) :
              \E k \in 1..Len(AnalyzableNodes) :
                  written[f].path \in {AnalyzableNodes[k].name \o <<".", "i", "n", "v", "a", "r", "i", "a", "n", "t", ".", "t", ".", "s", "o", "l">>,
                                       AnalyzableNodes[k].name \o <<".", "v", "u", "l", "n", ".", "t", ".", "s", "o", "l">>,
                                       AnalyzableNodes[k].name \o <<".", "r", "e", "p", "o", "r", "t", ".", "m", "d">>}

\* analyze --format md on a file of two contracts, one with findings and one
\* without: both reports and no test file were written
C15_Witness ==
    /\ outcome = "returned"
    /\ mode = "analyze"
    /\ format = "md"
    /\ PathsWritten = <<<<"V", "a", "u", "l", "t", ".", "r", "e", "p", "o", "r", "t", ".", "m", "d">>, <<"E", "m", "p", "t", "y", ".", "r", "e", "p", "o", "r", "t", ".", "m", "d">>>>
    /\ generatedFiles = <<>>

\* C16: a missing input file or a parser exception ends the command with a
\* failure exit before anything is analysed or written; a source unit without
\* contract definitions ends it with a success exit and nothing written; in
\* every other case the command reaches its end having processed each
\* contract that is no interface and no library once, in file order.
C16_ExitsAndLoop ==
    LET nContracts ==
            Cardinality({k \in 1..Len(source.children) :
                            source.children[k].type = "ContractDefinition"})
    IN  outcome # "pending" =>
            /\ (~source.exists \/ ~source.parses) =>
                  /\ outcome = "exit(1)"
                  /\ analyzed = <<>> /\ written = <<>> /\ generatedFiles = <<>>
            /\ (source.exists /\ source.parses /\ nContracts = 0) =>
                  /\ outcome = "exit(0)"
                  /\ analyzed = <<>> /\ written = <<>> /\ generatedFiles = <<>>
            /\ (source.exists /\ source.parses /\ nContracts > 0) =>
                  /\ outcome = "returned"
                  /\ analyzed = [k \in 1..Len(AnalyzableNodes) |-> AnalyzableNodes[k].name]

\* a file holding an interface and a contract was run to the end: the
\* contract alone was processed
C16_Witness ==
    /\ outcome = "returned"
    /\ Len(source.children) = 2
    /\ source.children[1].type = "ContractDefinition"
    /\ source.children[1].kind = "interface"
    /\ analyzed = <<<<"V", "a", "u", "l", "t">>>>
    /\ written # <<>>

(***************************************************************************)
(* The invariant rules one by one.                                         *)
(***************************************************************************)
\* what the seven rules that read the model alone push, rule by rule
ModelRuleOutputs ==
    <<detectERC20Invariants(contract), detectERC721Invariants(contract),
      detectSupplyInvariants(contract), detectBalanceInvariants(contract),
      detectAccessControlInvariants(contract), detectPausableInvariants(contract),
      detectArithmeticInvariants(contract)>>

IdsOf(invs) == {invs[i].id : i \in 1..Len(invs)}

\* the ids found when the rules run in an order that puts exactly the rules
\* of the set before ahead of mapping consistency: the other seven rules read
\* the model alone, so of an order nothing else bears on the ids
IdsInOrder(before) ==
    LET earlier == Flatten([r \in 1..7 |-> IF r \in before THEN ModelRuleOutputs[r] ELSE <<>>])
    IN  IdsOf(Flatten(ModelRuleOutputs)) \cup IdsOf(detectMappingConsistency(contract, earlier))

\* C17: the set of invariant ids found for a contract is the same in whatever
\* order the eight rules run.
C17_RuleOrderDoesNotMatter ==
    "invariants" \in done =>
        \A before \in SUBSET (1..7) : IdsInOrder(before) = IdsOf(invariants)

\* the assignment operators of the language, simple and compound
AssignmentOperators ==
    {<<"=">>, <<"+", "=">>, <<"-", "=">>, <<"*", "=">>, <<"/", "=">>, <<"%", "=">>, <<"|", "=">>, <<"&", "=">>, <<"^", "=">>, <<"<", "<", "=">>, <<">", ">", "=">>}

\* the assignment statements at or below a statement, in source order, through
\* blocks, the branches of an if and the bodies of for, while and do-while
RECURSIVE AssignmentsIn(_)
AssignmentsIn(stmt) ==
    IF stmt.type = "ExpressionStatement"
    THEN IF stmt.expression.type = "BinaryOperation"
            /\ stmt.expression.operator \in AssignmentOperators
         THEN <<[target |-> argToString(stmt.expression.left),
                 operator |-> stmt.expression.operator, loc |-> stmt.loc]>>
         ELSE <<>>
    ELSE IF stmt.type = "Block"
    THEN Flatten([k \in 1..Len(stmt.statements) |-> AssignmentsIn(stmt.statements[k])])
    ELSE IF stmt.type = "IfStatement"
    THEN AssignmentsIn(stmt.trueBody)
             \o (IF Has(stmt, "falseBody") THEN AssignmentsIn(stmt.falseBody) ELSE <<>>)
    ELSE IF stmt.type \in {"ForStatement", "WhileStatement", "DoWhileStatement"}
    THEN AssignmentsIn(stmt.body)
    ELSE <<>>

\* C18: every assignment statement of a function body, simple or compound with
\* whatever operator, at top level or inside blocks, if/else branches or the
\* body of a loop of any form, yields exactly one stateChanges entry with its
\* target, operator and line, the entries in source order.
C18_EveryAssignmentIsAStateChange ==
    "model" \in done =>
        LET fnNodes == SelectSeq(ast.subNodes, LAMBDA n : n.type = "FunctionDefinition")
        IN  \A i \in 1..Len(fnNodes) :
                contract.functions[i].stateChanges = AssignmentsIn(fnNodes[i].body)

\* C19 as stated: every non-constructor function, of any visibility, that
\* changes a balance-like target and has no require or revert yields an
\* unchecked-balance-modification invariant naming it.
C19_AnyVisibilityIsFlagged ==
    "invariants" \in done =>
        \A i \in 1..Len(contract.functions) :
            LET fn == contract.functions[i]
            IN  (~fn.isConstructor /\ ChangesBalanceUnchecked(fn))
                    => InvariantsWithId(<<"u", "n", "c", "h", "e", "c", "k", "e", "d", "_", "b", "a", "l", "a", "n", "c", "e", "_", "m", "o", "d", "_">> \o fn.name) # {}

\* C19: an unchecked-balance-modification invariant names a function exactly
\* when some non-constructor function of that name, neither internal nor
\* private, changes a balance-like target (one containing balance, Balance or
\* deposit) and has no require or revert; internal and private functions
\* yield none.
C19_ExternallyCallableIsFlagged ==
    "invariants" \in done =>
        /\ \A i \in 1..Len(contract.functions) :
              LET name == contract.functions[i].name
              IN  (InvariantsWithId(<<"u", "n", "c", "h", "e", "c", "k", "e", "d", "_", "b", "a", "l", "a", "n", "c", "e", "_", "m", "o", "d", "_">> \o name) # {})
                  <=> \E j \in 1..Len(contract.functions) :
                          LET fn == contract.functions[j]
                          IN  /\ fn.name = name
                              /\ ~fn.isConstructor
                              /\ fn.visibility \notin {"internal", "private"}
                              /\ ChangesBalanceUnchecked(fn)
        /\ \A v \in 1..Len(invariants) :
              invariants[v].pattern = "Missing validation" =>
                  /\ invariants[v].severity = "HIGH"
                  /\ \E j \in 1..Len(contract.functions) :
                        invariants[v].id
                            = <<"u", "n", "c", "h", "e", "c", "k", "e", "d", "_", "b", "a", "l", "a", "n", "c", "e", "_", "m", "o", "d", "_">> \o contract.functions[j].name

\* an internal function and a public one both change balances unchecked: the
\* public one is flagged, the internal one is not
C19_Witness ==
    /\ "invariants" \in done
    /\ \E i, j \in 1..Len(contract.functions) :
          /\ contract.functions[i].visibility = "internal"
          /\ ChangesBalanceUnchecked(contract.functions[i])
          /\ InvariantsWithId(<<"u", "n", "c", "h", "e", "c", "k", "e", "d", "_", "b", "a", "l", "a", "n", "c", "e", "_", "m", "o", "d", "_">> \o contract.functions[i].name) = {}
          /\ contract.functions[j].visibility = "public"
          /\ ChangesBalanceUnchecked(contract.functions[j])
          /\ InvariantsWithId(<<"u", "n", "c", "h", "e", "c", "k", "e", "d", "_", "b", "a", "l", "a", "n", "c", "e", "_", "m", "o", "d", "_">> \o contract.functions[j].name) # {}

\* the contract has a state variable, no mapping, whose lower-cased name
\* contains total, count or supply
HasRelatedTotal ==
    \E k \in 1..Len(contract.stateVars) :
        LET v == contract.stateVars[k]
        IN  /\ ~v.isMapping
            /\ \/ includes(toLowerCase(v.name), <<"t", "o", "t", "a", "l">>)
               \/ includes(toLowerCase(v.name), <<"c", "o", "u", "n", "t">>)
               \/ includes(toLowerCase(v.name), <<"s", "u", "p", "p", "l", "y">>)

\* C20: with such a state variable, when neither the ERC20 supply-conservation
\* invariant nor the vault-accounting invariant was emitted the mapping
\* consistency rule emits exactly one invariant for each mapping of the
\* contract, in order; when one of the two was emitted it emits none.
C20_OneConsistencyInvariantPerMapping ==
    ("invariants" \in done /\ HasRelatedTotal) =>
        LET earlier == Flatten(ModelRuleOutputs)
            emitted == detectMappingConsistency(contract, earlier)
            covered == IdsOf(earlier) \cap {<<"e", "r", "c", "2", "0", "_", "s", "u", "p", "p", "l", "y", "_", "c", "o", "n", "s", "e", "r", "v", "a", "t", "i", "o", "n">>, <<"v", "a", "u", "l", "t", "_", "a", "c", "c", "o", "u", "n", "t", "i", "n", "g">>} # {}
        IN  IF covered THEN emitted = <<>>
            ELSE /\ Len(emitted) = Len(contract.mappings)
                 /\ \A k \in 1..Len(emitted) :
                       /\ emitted[k].pattern = "Data consistency"
                       /\ startsWith(emitted[k].id,
                              <<"m", "a", "p", "p", "i", "n", "g", "_", "t", "o", "t", "a", "l", "_", "c", "o", "n", "s", "i", "s", "t", "e", "n", "c", "y", "_">> \o contract.mappings[k].name \o <<"_">>)

(***************************************************************************)
(* Claims on the synthesized handler and invariant test, read off the      *)
(* lines the run wrote.                                                    *)
(***************************************************************************)
\* the lines of the invariant test file the run wrote, if it wrote one
InvariantTestWritten ==
    Flatten([f \in 1..Len(written) |->
        IF endsWith(written[f].path, <<".", "i", "n", "v", "a", "r", "i", "a", "n", "t", ".", "t", ".", "s", "o", "l">>) THEN written[f].content ELSE <<>>])

\* the handler's wrapped entry points in the order written: the function name
\* and parameter list of the header line, and the lines from the header to
\* the closing brace of the function
EntryPointsWritten ==
    LET lines == InvariantTestWritten
        isHeader(i) ==
            lines[i].template = "    function ${fn.name}(${params}) public useActor(actorSeed) {"
        heads == SelectSeq([i \in 1..Len(lines) |-> i], isHeader)
        end(h) ==
            CHOOSE e \in h..Len(lines) :
                /\ lines[e].template = "    }"
                /\ \A k \in h..(e - 1) : lines[k].template # "    }"
    IN  [k \in 1..Len(heads) |->
            [name |-> lines[heads[k]].strs[1],
             params |-> lines[heads[k]].strs[2],
             body |-> SubSeq(lines, heads[k] + 1, end(heads[k]) - 1)]]

\* the functions of the model the spec gives an entry point to
CallableFunctions ==
    SelectSeq(contract.functions, LAMBDA fn :
        /\ ~fn.isConstructor
        /\ fn.visibility # "internal" /\ fn.visibility # "private"
        /\ fn.name # <<"r", "e", "c", "e", "i", "v", "e">> /\ fn.name # <<"f", "a", "l", "l", "b", "a", "c", "k">>)

\* the statements of an entry point that update the ghost variable gName
UpdatesOf(entry, gName) ==
    LET isUpdate(l) == l.template = "            ${u}" /\ startsWith(l.strs[1], gName \o <<" ">>)
        updates == SelectSeq(entry.body, isUpdate)
    IN  [k \in 1..Len(updates) |-> updates[k].strs[1]]

GhostNames ==
    {<<"g", "h", "o", "s", "t", "_", "b", "a", "l", "a", "n", "c", "e", "S", "u", "m">>, <<"g", "h", "o", "s", "t", "_", "t", "o", "t", "a", "l", "M", "i", "n", "t", "e", "d">>, <<"g", "h", "o", "s", "t", "_", "s", "e", "n", "d", "e", "r", "D", "e", "c", "r", "e", "a", "s", "e">>,
     <<"g", "h", "o", "s", "t", "_", "r", "e", "c", "e", "i", "v", "e", "r", "I", "n", "c", "r", "e", "a", "s", "e">>}

\* the tracking sets the invariants found declare for the ghost variable gName
TrackingSets(gName) ==
    LET declared ==
            UNION {{invariants[i].ghostVars[j] : j \in 1..Len(invariants[i].ghostVars)} :
                   i \in 1..Len(invariants)}
    IN  {{g.trackIn[k] : k \in 1..Len(g.trackIn)} : g \in {h \in declared : h.name = gName}}

\* the uint256 parameters of fn named amount, _amount or value
AmountParams(fn) ==
    SelectSeq(fn.params, LAMBDA p :
        p.type = <<"u", "i", "n", "t", "2", "5", "6">> /\ p.name \in {<<"a", "m", "o", "u", "n", "t">>, <<"_", "a", "m", "o", "u", "n", "t">>, <<"v", "a", "l", "u", "e">>})

\* the entry points whose function every declared tracking set of
\* ghost_balanceSum names and which has an amount parameter
BalanceSumTracked ==
    {k \in 1..Len(EntryPointsWritten) :
        /\ k <= Len(CallableFunctions)
        /\ TrackingSets(<<"g", "h", "o", "s", "t", "_", "b", "a", "l", "a", "n", "c", "e", "S", "u", "m">>) # {}
        /\ \A t \in TrackingSets(<<"g", "h", "o", "s", "t", "_", "b", "a", "l", "a", "n", "c", "e", "S", "u", "m">>) : CallableFunctions[k].name \in t
        /\ AmountParams(CallableFunctions[k]) # <<>>}

\* C21: for a tracked function with an amount parameter the ghost_balanceSum
\* update written follows the function's name: a withdraw, unstake or burn
\* function subtracts the parameter, a mint function adds it, only a payable
\* deposit or stake function adds the value sent, and any other tracked
\* function gets no update.
C21_BalanceSumUpdateFollowsName ==
    "report" \in done =>
        \A k \in BalanceSumTracked :
            LET fn == CallableFunctions[k]
                name == toLowerCase(fn.name)
                amount == AmountParams(fn)[1].name
            IN  UpdatesOf(EntryPointsWritten[k], <<"g", "h", "o", "s", "t", "_", "b", "a", "l", "a", "n", "c", "e", "S", "u", "m">>) =
                    IF includes(name, <<"w", "i", "t", "h", "d", "r", "a", "w">>) \/ includes(name, <<"u", "n", "s", "t", "a", "k", "e">>)
                       \/ includes(name, <<"b", "u", "r", "n">>)
                    THEN <<<<"g", "h", "o", "s", "t", "_", "b", "a", "l", "a", "n", "c", "e", "S", "u", "m", " ", "-", "=", " ">> \o amount \o <<";">>>>
                    ELSE IF includes(name, <<"m", "i", "n", "t">>)
                    THEN <<<<"g", "h", "o", "s", "t", "_", "b", "a", "l", "a", "n", "c", "e", "S", "u", "m", " ", "+", "=", " ">> \o amount \o <<";">>>>
                    ELSE IF fn.stateMutability = "payable"
                            /\ (includes(name, <<"d", "e", "p", "o", "s", "i", "t">>) \/ includes(name, <<"s", "t", "a", "k", "e">>))
                    THEN <<<<"g", "h", "o", "s", "t", "_", "b", "a", "l", "a", "n", "c", "e", "S", "u", "m", " ", "+", "=", " ", "v", "a", "l", "u", "e", ";">>>>
                    ELSE <<>>

\* the lines of an entry point that run when it is called: the lines ahead of
\* the call to the target and, unless the call reverts, the success branch of
\* the try; the catch branch is empty
LinesRun(entry, reverts) ==
    LET body == entry.body
        isTry(l) ==
            l.template \in {"        try target.${fn.name}${valueStr}(${callArgs}) {",
                            "        try target.${fn.name}${valueStr}() {"}
        try == CHOOSE t \in 1..Len(body) : isTry(body[t])
        catch == CHOOSE c \in try..Len(body) :
                     /\ body[c].template = "        } catch {}"
                     /\ \A k \in try..(c - 1) : body[k].template # "        } catch {}"
    IN  SubSeq(body, 1, try - 1)
            \o (IF reverts THEN <<>> ELSE SubSeq(body, try + 1, catch - 1))
            \o SubSeq(body, catch + 1, Len(body))

\* the lines that may assign to a ghost variable: every line but the count
\* of calls, the bounding of a parameter and the funding of the actor
GhostUpdatesIn(lines) ==
    SelectSeq(lines, LAMBDA l :
        l.template \notin
            {"        callCount++;",
             "        ${p.name} = bound(${p.name}, 0, type(uint96).max);",
             "        ${p.name} = address(uint160(bound(uint256(uint160(${p.name})), 1, type(uint160).max)));",
             "        uint256 value = bound(actorSeed, 0, 10 ether);",
             "        deal(currentActor, value);",
             "        try target.${fn.name}${valueStr}(${callArgs}) {",
             "        try target.${fn.name}${valueStr}() {",
             "        } catch {}"})

\* C22: in every handler entry point written, a call of the target that
\* reverts runs callCount++ and no ghost update, every ghost update written is
\* run when the call succeeds, and ghost_senderDecrease and
\* ghost_receiverIncrease are either both updated, by the same amount, or both
\* left alone.
C22_GhostUpdatesOnlyOnSuccess ==
    "report" \in done =>
        \A k \in 1..Len(EntryPointsWritten) :
            LET entry == EntryPointsWritten[k]
                sender == UpdatesOf(entry, <<"g", "h", "o", "s", "t", "_", "s", "e", "n", "d", "e", "r", "D", "e", "c", "r", "e", "a", "s", "e">>)
                receiver == UpdatesOf(entry, <<"g", "h", "o", "s", "t", "_", "r", "e", "c", "e", "i", "v", "e", "r", "I", "n", "c", "r", "e", "a", "s", "e">>)
            IN  /\ GhostUpdatesIn(LinesRun(entry, TRUE)) = <<>>
                /\ \E i \in 1..Len(LinesRun(entry, TRUE)) :
                      LinesRun(entry, TRUE)[i].template = "        callCount++;"
                /\ GhostUpdatesIn(LinesRun(entry, FALSE)) = GhostUpdatesIn(entry.body)
                /\ \/ sender = <<>> /\ receiver = <<>>
                   \/ \E i \in 1..Len(CallableFunctions[k].params) :
                         LET amount == CallableFunctions[k].params[i].name IN
                         /\ sender = <<<<"g", "h", "o", "s", "t", "_", "s", "e", "n", "d", "e", "r", "D", "e", "c", "r", "e", "a", "s", "e", " ", "+", "=", " ">> \o amount \o <<";">>>>
                         /\ receiver = <<<<"g", "h", "o", "s", "t", "_", "r", "e", "c", "e", "i", "v", "e", "r", "I", "n", "c", "r", "e", "a", "s", "e", " ", "+", "=", " ">> \o amount \o <<";">>>>

\* a run wrote an entry point that updates both transfer ghosts and one, of a
\* tracked function, that updates no ghost variable at all
C22_Witness ==
    /\ "report" \in done
    /\ \E k \in 1..Len(EntryPointsWritten) :
          /\ UpdatesOf(EntryPointsWritten[k], <<"g", "h", "o", "s", "t", "_", "s", "e", "n", "d", "e", "r", "D", "e", "c", "r", "e", "a", "s", "e">>) # <<>>
          /\ UpdatesOf(EntryPointsWritten[k], <<"g", "h", "o", "s", "t", "_", "r", "e", "c", "e", "i", "v", "e", "r", "I", "n", "c", "r", "e", "a", "s", "e">>) # <<>>
    /\ \E k \in 1..Len(EntryPointsWritten) :
          /\ EntryPointsWritten[k].name = <<"t", "r", "a", "n", "s", "f", "e", "r", "F", "r", "o", "m">>
          /\ GhostUpdatesIn(EntryPointsWritten[k].body) = <<>>

\* the parameter list written for fn: the actor seed, then fn's own parameters
ParamsWithActorSeed(fn) ==
    join(<<<<"u", "i", "n", "t", "2", "5", "6", " ", "a", "c", "t", "o", "r", "S", "e", "e", "d">>>>
             \o [i \in 1..Len(fn.params) |->
                    mapType(fn.params[i].type) \o <<" ">> \o fn.params[i].name], <<",", " ">>)

InvariantFunctionsWritten ==
    LET lines == InvariantTestWritten
        isHeader(i) == lines[i].template = "    function invariant_${inv.id}() public view {"
        heads == SelectSeq([i \in 1..Len(lines) |-> i], isHeader)
        end(h) ==
            CHOOSE e \in h..Len(lines) :
                /\ lines[e].template = "    }"
                /\ \A k \in h..(e - 1) : lines[k].template # "    }"
    IN  [k \in 1..Len(heads) |->
            [id |-> lines[heads[k]].strs[1],
             body |-> SubSeq(lines, heads[k] + 1, end(heads[k]) - 1)]]

\* C24: the invariant test written has one function invariant_<id> for each
\* invariant found, in the order of the list: its body is the one assertion
\* statement when the invariant carries an assertion template, and otherwise
\* a TODO stub whose second line repeats the invariant's description.
C24_OneFunctionPerInvariant ==
    ("report" \in done /\ invariants # <<>>) =>
        /\ Len(InvariantFunctionsWritten) = Len(invariants)
        /\ \A k \in 1..Len(InvariantFunctionsWritten) :
              LET inv == invariants[k]
                  fun == InvariantFunctionsWritten[k]
              IN  /\ fun.id = inv.id
                  /\ IF inv.invariantCode # <<>>
                     THEN /\ Len(fun.body) = 1
                          /\ fun.body[1].template = "        ${code};"
                          /\ startsWith(fun.body[1].strs[1], <<"a", "s", "s", "e", "r", "t">>)
                     ELSE /\ Len(fun.body) >= 2
                          /\ fun.body[1].template =
                                 "        // TODO: Implement this invariant check"
                          /\ fun.body[2].template =
                                 "        // " \o inv.description.template
                          /\ fun.body[2].strs = inv.description.strs
                          /\ \A i \in 1..Len(fun.body) :
                                fun.body[i].template # "        ${code};"

\* a run wrote the functions of an invariant with an assertion template and of
\* one without
C24_Witness ==
    /\ "report" \in done
    /\ Len(InvariantFunctionsWritten) >= 2
    /\ \E k \in 1..Len(invariants) : invariants[k].invariantCode # <<>>
    /\ \E k \in 1..Len(invariants) : invariants[k].invariantCode = <<>>

\* C28: when several invariants declare a ghost variable of one name, the
\* handler written applies the variable's update rule in every function that
\* any of their tracking sets names: the sets are united.
C28_TrackingSetsAreUnited ==
    "report" \in done =>
        \A k \in 1..Len(EntryPointsWritten) : \A gName \in GhostNames :
            (\E t \in TrackingSets(gName) : CallableFunctions[k].name \in t) =>
                UpdatesOf(EntryPointsWritten[k], gName)
                    = getGhostUpdate(gName, CallableFunctions[k])

GhostAccessors == {<<"h", "a", "n", "d", "l", "e", "r", ".">> \o g \o <<"(", ")">> : g \in GhostNames}

\* C30: whatever the contract is called, every reference to a ghost accessor
\* of the handler that an assertion template holds is in the assertion written
\* from it.
C30_GhostAccessorsAreKept ==
    ("report" \in done /\ invariants # <<>>) =>
        \A k \in 1..Len(invariants) : \A accessor \in GhostAccessors :
            includes(invariants[k].invariantCode, accessor) =>
                \E i \in 1..Len(InvariantFunctionsWritten[k].body) :
                    LET line == InvariantFunctionsWritten[k].body[i]
                    IN  /\ line.template = "        ${code};"
                        /\ includes(line.strs[1], accessor)

(***************************************************************************)
(* Claims on the synthesized proof-of-concept tests, read off the lines    *)
(* the run wrote.                                                          *)
(***************************************************************************)
\* the lines of the vulnerability test file the run wrote, if it wrote one
VulnTestWritten ==
    Flatten([f \in 1..Len(written) |->
        IF endsWith(written[f].path, <<".", "v", "u", "l", "n", ".", "t", ".", "s", "o", "l">>) THEN written[f].content ELSE <<>>])

\* the names interpolated into the lines of the given template, in order
NamesWritten(header) ==
    LET heads == SelectSeq(VulnTestWritten, LAMBDA l : l.template = header)
    IN  [k \in 1..Len(heads) |-> heads[k].strs[1]]

TestFunctionsWritten == NamesWritten("    function test_${vuln.id}() public {")
AttackFunctionsWritten == NamesWritten("    function attack_${v.function}() external payable {")

NoTwoAlike(names) ==
    \A i, j \in 1..Len(names) : names[i] = names[j] => i = j

\* C25: whatever list detectVulnerabilities returned, no two test functions of
\* the test contract written share a name and no two attack functions of the
\* attacker contract written share a name.
C25_NoTwoFunctionsShareAName ==
    "report" \in done =>
        /\ NoTwoAlike(TestFunctionsWritten)
        /\ NoTwoAlike(AttackFunctionsWritten)

\* the test functions of the test contract in the order written: the finding
\* id of the header line and the lines from the header to the closing brace
TestsWritten ==
    LET lines == VulnTestWritten
        isHeader(i) == lines[i].template = "    function test_${vuln.id}() public {"
        heads == SelectSeq([i \in 1..Len(lines) |-> i], isHeader)
        end(h) ==
            CHOOSE e \in h..Len(lines) :
                /\ lines[e].template = "    }"
                /\ \A k \in h..(e - 1) : lines[k].template # "    }"
    IN  [k \in 1..Len(heads) |->
            [id |-> lines[heads[k]].strs[1],
             body |-> SubSeq(lines, heads[k] + 1, end(heads[k]) - 1)]]

\* the positions in a test body of the lines of the given template
StepsAt(body, template) == {i \in 1..Len(body) : body[i].template = template}

\* C26: for every reentrancy finding the test written funds the victim, has
\* the victim deposit into the target, runs the attack on the vulnerable
\* function and asserts that the attacker holds more than 1 ether, in this
\* order, each step once: the deposit is there for every contract.
C26_ProofOfConceptSteps ==
    "report" \in done =>
        \A k \in 1..Len(vulns) :
            vulns[k].pattern = "Reentrancy (SWC-107)" =>
                LET body == TestsWritten[k].body
                    fund == StepsAt(body, "        deal(address(user1), 10 ether);")
                    deposit ==
                        StepsAt(body, "        target.${depositFn.name}{value: 5 ether}();")
                    attack ==
                        {i \in StepsAt(body,
                                  "        attacker.attack_${vuln.function}{value: 1 ether}();") :
                            body[i].strs = <<vulns[k].function>>}
                    assert ==
                        StepsAt(body, "        assertGt(attackerBal, 1 ether, \"Reentrancy: attacker should have drained extra ETH\");")
                IN  /\ Cardinality(fund) = 1 /\ Cardinality(deposit) = 1
                    /\ Cardinality(attack) = 1 /\ Cardinality(assert) = 1
                    /\ \A f \in fund, d \in deposit, a \in attack, s \in assert :
                          f < d /\ d < a /\ a < s

\* the rule that produced a finding, told by the pattern label it is given
ByReentrancyRule(v) == v.pattern = "Reentrancy (SWC-107)"

\* C29: the shape of what is written for a finding follows the rule that
\* produced it, whatever the function is called: an attack function and a
\* test that runs the attack are written for the findings of the reentrancy
\* rule and for no other finding, and an attacker contract only when the
\* reentrancy rule produced a finding.
C29_ShapeFollowsTheRule ==
    "report" \in done =>
        /\ \A k \in 1..Len(vulns) :
              ByReentrancyRule(vulns[k]) <=>
                  StepsAt(TestsWritten[k].body,
                          "        attacker.attack_${vuln.function}{value: 1 ether}();") # {}
        /\ \A name \in {AttackFunctionsWritten[i] : i \in 1..Len(AttackFunctionsWritten)} :
              \E k \in 1..Len(vulns) : ByReentrancyRule(vulns[k]) /\ vulns[k].function = name
        /\ StepsAt(VulnTestWritten, "contract ${name}Attacker {") # {}
              <=> \E k \in 1..Len(vulns) : ByReentrancyRule(vulns[k])

\* C27: over any sequence of value receipts attackCount never exceeds 3, the
\* hook has called no function of the target more than 3 times, and no more
\* than 3 executions of the hook are nested in one another, so the chain of
\* re-entries ends.
C27_RetryCeiling ==
    /\ attackCount <= 3
    /\ Len(hooks) <= 3
    /\ \A n \in DOMAIN reinvoked : reinvoked[n] <= 3

====
